---- MODULE Spec2Model ----
(***************************************************************************)
(* Model of the Flyway SQL converter (src/flyway_converter.py) with its     *)
(* batch driver, of the mapping stores it loads, and of the migration       *)
(* steps 1 (tables, column names and data) and 4 (collations), and of the   *)
(* master script run_all.py.  Each subsystem has its own specification:     *)
(* Spec, SpecStore, SpecStep1, SpecStep4 and SpecRunAll; SpecShorten calls  *)
(* shorten_column_name with other limits, SpecThreads interleaves two       *)
(* convert_file calls, and SpecEndIf runs the END IF loop of a DO block     *)
(* line by line.                                                            *)
(*                                                                          *)
(* Text representation.  A script is a sequence of tokens.  A token is one  *)
(* maximal run of word characters (a regex \w+ run: "drop", "int_value",    *)
(* "1"), one whitespace character (" " or "\n") or one punctuation mark.    *)
(* The dollar-quote "$$" and the comment marker "--" are one token each.    *)
(* Joining the tokens of a script gives the text the Python code sees, so   *)
(* whole-word matching (\b..\b) is token equality, \s is a whitespace       *)
(* token and [^)] is any token but ")".                                     *)
(***************************************************************************)
EXTENDS Naturals, Integers, Sequences, FiniteSets, TLC

(***************************************************************************)
(* Letter case.  str.lower() and re.IGNORECASE on the vocabulary of the     *)
(* model: every token with an upper-case letter that a script or a rule     *)
(* can produce is listed with its lower-case form.                          *)
(***************************************************************************)
LowerTable ==
     ("T" :> "t") @@ ("U" :> "u") @@ ("X" :> "x") @@ ("Y" :> "y")
  @@ ("A" :> "a") @@ ("GO" :> "go") @@ ("DO" :> "do")
  @@ ("IF" :> "if") @@ ("EXISTS" :> "exists") @@ ("BEGIN" :> "begin")
  @@ ("END" :> "end") @@ ("THEN" :> "then") @@ ("SELECT" :> "select")
  @@ ("FROM" :> "from") @@ ("WHERE" :> "where") @@ ("OBJECT_ID" :> "object_id")
  @@ ("DROP" :> "drop") @@ ("TABLE" :> "table") @@ ("INDEX" :> "index")
  @@ ("CONSTRAINT" :> "constraint") @@ ("ALTER" :> "alter")
  @@ ("CREATE" :> "create") @@ ("CASCADE" :> "cascade")
  @@ ("DECLARE" :> "declare") @@ ("IDENTITY" :> "identity")
  @@ ("GENERATED" :> "generated") @@ ("ALWAYS" :> "always") @@ ("AS" :> "as")
  @@ ("DEFAULT" :> "default") @@ ("CURRENT_TIMESTAMP" :> "current_timestamp")
  @@ ("COLLATE" :> "collate") @@ ("DBO" :> "dbo") @@ ("Dbo" :> "dbo")
  @@ ("MAX" :> "max") @@ ("My" :> "my") @@ ("Column" :> "column")
  @@ ("Date" :> "date") @@ ("NOT" :> "not") @@ ("NULL" :> "null")
  @@ ("FUNCTION" :> "function") @@ ("PROCEDURE" :> "procedure")
  @@ ("TRANSACTION" :> "transaction") @@ ("LANGUAGE" :> "language")
  @@ ("RETURNS" :> "returns")
  @@ ("BIGINT" :> "bigint") @@ ("INTEGER" :> "integer") @@ ("INT" :> "int")
  @@ ("SMALLINT" :> "smallint") @@ ("BOOLEAN" :> "boolean")
  @@ ("DECIMAL" :> "decimal") @@ ("NUMERIC" :> "numeric")
  @@ ("DOUBLE" :> "double") @@ ("PRECISION" :> "precision")
  @@ ("REAL" :> "real") @@ ("TIMESTAMPTZ" :> "timestamptz")
  @@ ("DATE" :> "date") @@ ("TIME" :> "time") @@ ("TIMESTAMP" :> "timestamp")
  @@ ("WITH" :> "with") @@ ("ZONE" :> "zone") @@ ("CHAR" :> "char")
  @@ ("VARCHAR" :> "varchar") @@ ("TEXT" :> "text") @@ ("nTEXT" :> "ntext")
  @@ ("BYTEA" :> "bytea") @@ ("UUID" :> "uuid") @@ ("XML" :> "xml")
  @@ ("VARBINARY" :> "varbinary") @@ ("NVARCHAR" :> "nvarchar")
  @@ ("ON" :> "on") @@ ("Drop" :> "drop") @@ ("KEY" :> "key")
  @@ ("PRIMARY" :> "primary") @@ ("UNIQUE" :> "unique") @@ ("CHECK" :> "check")
  @@ ("Col" :> "col") @@ ("timestampTZ" :> "timestamptz")
  @@ ("Latin1_General_CS_AS" :> "latin1_general_cs_as")
  @@ ("Latin1_General_CI_AS" :> "latin1_general_ci_as")
  @@ ("de_DE" :> "de_de") @@ ("C" :> "c")
  @@ ("Check" :> "check") @@ ("Time" :> "time") @@ ("DropDb" :> "dropdb")

\* str.lower() of one token
Lower(w) == IF w \in DOMAIN LowerTable THEN LowerTable[w] ELSE w

\* str.lower() of a text
LowerText(t) == [i \in DOMAIN t |-> Lower(t[i])]

(***************************************************************************)
(* Character classes of the regular expressions, by token.                  *)
(***************************************************************************)
Whitespace == {" ", "\n"}

Punctuation ==
  {";", "(", ")", "[", "]", "@", "=", ":=", ",", ".", "$$", "\"", "*", "--", "'"}

Numbers == {"0", "1", "2", "4", "10", "19"}

IsWs(c) == c \in Whitespace

\* \w+ : one whole word token
IsWord(c) == c \notin Whitespace /\ c \notin Punctuation

\* \d+
IsNumber(c) == c \in Numbers

\* The words of the vocabulary that end in "varchar", in lower case, with
\* the text left when that ending is replaced by TEXT.
EndsWithVarchar == ("varchar" :> "TEXT") @@ ("nvarchar" :> "nTEXT")

\* The list (varchar|char|text|bytea|integer|smallint|bigint|decimal|numeric|
\* float|double|boolean|timestamp|date|time) of the column-name pattern of
\* _lowercase_keywords_and_identifiers has no \b after it: it matches the
\* start of a word.  The words of the vocabulary that start with one of the
\* alternatives, in lower case, with the number of letters the first such
\* alternative takes.
StartsWithType ==
     ("varchar" :> 7) @@ ("char" :> 4) @@ ("text" :> 4) @@ ("bytea" :> 5)
  @@ ("integer" :> 7) @@ ("smallint" :> 8) @@ ("bigint" :> 6) @@ ("decimal" :> 7)
  @@ ("numeric" :> 7) @@ ("float" :> 5) @@ ("double" :> 6) @@ ("boolean" :> 7)
  @@ ("timestamp" :> 9) @@ ("date" :> 4) @@ ("time" :> 4)
  @@ ("timestamptz" :> 9) @@ ("datetime" :> 4) @@ ("datetime2" :> 4)
  @@ ("datetimeoffset" :> 4)

\* w with its first StartsWithType[Lower(w)] letters in lower case
LowerTypePrefix(w) ==
  IF w = "TIMESTAMPTZ" THEN "timestampTZ"
  ELSE IF Lower(w) \in {"varchar", "char", "text", "bytea", "integer", "smallint",
                        "bigint", "decimal", "numeric", "float", "double", "boolean",
                        "timestamp", "date", "time"}
  THEN Lower(w)
  ELSE w

Min(S) == CHOOSE x \in S : \A y \in S : x <= y

Max(S) == CHOOSE x \in S : \A y \in S : x >= y

RECURSIVE Flat(_)
\* ''.join of a sequence of texts
Flat(ss) == IF ss = <<>> THEN <<>> ELSE Head(ss) \o Flat(Tail(ss))

\* the index after the whitespace run that starts at i (greedy \s*)
SkipWs(t, i) ==
  CHOOSE j \in i..(Len(t) + 1) :
    /\ \A k \in i..(j - 1) : IsWs(t[k])
    /\ (j = Len(t) + 1 \/ ~IsWs(t[j]))

\* the index of the first token c at or after i, Len(t)+1 when there is none
IndexOf(t, i, c) ==
  IF \E j \in i..Len(t) : t[j] = c
  THEN Min({j \in i..Len(t) : t[j] = c})
  ELSE Len(t) + 1

(***************************************************************************)
(* re: a pattern without lazy parts is a sequence of elements, matched      *)
(* left to right from index i.  MatchSeq is the index after the match, or   *)
(* 0 when the pattern does not match at i.  Elements:                       *)
(*   "ws*" \s*   "ws+" \s+   "word" \w+   "digits" \d+                      *)
(*   "bol" ^ (re.MULTILINE)   "ws*eol" \s*$ (re.MULTILINE)                  *)
(*   "notrparen+" [^)]+   "notrparen*" [^)]*   "notsemi*" [^;]*             *)
(*   "notrbracket+" [^\]]+   "nonspace" [^\s]+                              *)
(*   "...varchar" a word that ends in VARCHAR (the pattern has no \b)      *)
(*   "ddlverb" (?:drop|alter|create)   "ddlobj" (?:table|index|constraint) *)
(*   "ws*nl" \s*\n   "params?" (?:\s*\([^)]*\))?   "go|;" (GO|;)              *)
(*   "sp_extprop" sp_(?:add|update)extendedproperty                         *)
(*   "ident" [A-Z_][A-Z0-9_]* under re.IGNORECASE                           *)
(*   "typeprefix" a word that starts with (varchar|char|...|time)            *)
(*   ";?" an optional semicolon   "any" one token (the first of a .+?)      *)
(*   "(?!if exists)" (?!IF\s+EXISTS)   "(?!ws+if)" (?!\s+IF)                *)
(*   any other element is a literal token, compared in lower case when      *)
(*   ic (re.IGNORECASE) is set and exactly otherwise.                       *)
(* [^;]* is greedy and gives back: it takes the longest run from which the  *)
(* rest of the pattern matches.  Every other element that can match         *)
(* several lengths is followed in the patterns of the program by an         *)
(* element that fixes the length, so it needs no backtracking.              *)
(***************************************************************************)
RECURSIVE MatchSeq(_, _, _, _, _)
MatchSeq(t, i, pat, k, ic) ==
  IF k > Len(pat) THEN i
  ELSE
    LET e == pat[k]
        n == Len(t)
        has == i <= n
        stop(c) == IndexOf(t, i, c)
    IN
    CASE e = "ws*" -> MatchSeq(t, SkipWs(t, i), pat, k + 1, ic)
      [] e = "ws+" ->
           IF has /\ IsWs(t[i]) THEN MatchSeq(t, SkipWs(t, i), pat, k + 1, ic) ELSE 0
      [] e = "word" ->
           IF has /\ IsWord(t[i]) THEN MatchSeq(t, i + 1, pat, k + 1, ic) ELSE 0
      [] e = "digits" ->
           IF has /\ IsNumber(t[i]) THEN MatchSeq(t, i + 1, pat, k + 1, ic) ELSE 0
      [] e = "nonspace" ->
           IF has /\ ~IsWs(t[i])
           THEN MatchSeq(t, Min({j \in (i + 1)..(n + 1) : j = n + 1 \/ IsWs(t[j])}),
                         pat, k + 1, ic)
           ELSE 0
      [] e = "bol" ->
           IF i = 1 \/ (i - 1 <= n /\ t[i - 1] = "\n")
           THEN MatchSeq(t, i, pat, k + 1, ic) ELSE 0
      [] e = "ws*eol" ->
           LET r == SkipWs(t, i)
               nl == {j \in i..(r - 1) : t[j] = "\n"}
           IN IF r = n + 1 THEN MatchSeq(t, r, pat, k + 1, ic)
              ELSE IF nl # {} THEN MatchSeq(t, Max(nl), pat, k + 1, ic)
              ELSE 0
      [] e = "notrparen+" ->
           IF stop(")") > i THEN MatchSeq(t, stop(")"), pat, k + 1, ic) ELSE 0
      [] e = "notrparen*" -> MatchSeq(t, stop(")"), pat, k + 1, ic)
      [] e = "notsemi*" ->
           LET cand == {q \in i..stop(";") : MatchSeq(t, q, pat, k + 1, ic) # 0}
           IN IF cand = {} THEN 0 ELSE MatchSeq(t, Max(cand), pat, k + 1, ic)
      [] e = "ws*nl" ->
           LET nl == {j \in i..(SkipWs(t, i) - 1) : t[j] = "\n"}
           IN IF nl = {} THEN 0 ELSE MatchSeq(t, Max(nl) + 1, pat, k + 1, ic)
      [] e = "params?" ->
           LET with == MatchSeq(t, i, <<"ws*", "(", "notrparen*", ")">>, 1, ic)
           IN IF with # 0 /\ MatchSeq(t, with, pat, k + 1, ic) # 0
              THEN MatchSeq(t, with, pat, k + 1, ic)
              ELSE MatchSeq(t, i, pat, k + 1, ic)
      [] e = "go|;" ->
           IF has /\ Lower(t[i]) \in {"go", ";"}
           THEN MatchSeq(t, i + 1, pat, k + 1, ic) ELSE 0
      [] e = "sp_extprop" ->
           IF has /\ Lower(t[i]) \in {"sp_addextendedproperty", "sp_updateextendedproperty"}
           THEN MatchSeq(t, i + 1, pat, k + 1, ic) ELSE 0
      [] e = "typeprefix" ->
           IF has /\ Lower(t[i]) \in DOMAIN StartsWithType
           THEN MatchSeq(t, i + 1, pat, k + 1, ic) ELSE 0
      [] e = "ident" ->
           IF has /\ IsWord(t[i]) /\ ~IsNumber(t[i])
           THEN MatchSeq(t, i + 1, pat, k + 1, ic) ELSE 0
      [] e = "notrbracket+" ->
           IF stop("]") > i THEN MatchSeq(t, stop("]"), pat, k + 1, ic) ELSE 0
      [] e = "...varchar" ->
           IF has /\ Lower(t[i]) \in DOMAIN EndsWithVarchar
           THEN MatchSeq(t, i + 1, pat, k + 1, ic) ELSE 0
      [] e = "ddlverb" ->
           IF has /\ Lower(t[i]) \in {"drop", "alter", "create"}
           THEN MatchSeq(t, i + 1, pat, k + 1, ic) ELSE 0
      [] e = "ddlobj" ->
           IF has /\ Lower(t[i]) \in {"table", "index", "constraint"}
           THEN MatchSeq(t, i + 1, pat, k + 1, ic) ELSE 0
      [] e = "any" ->
           IF has THEN MatchSeq(t, i + 1, pat, k + 1, ic) ELSE 0
      [] e = ";?" ->
           IF has /\ t[i] = ";" THEN MatchSeq(t, i + 1, pat, k + 1, ic)
           ELSE MatchSeq(t, i, pat, k + 1, ic)
      [] e = "(?!if exists)" ->
           IF MatchSeq(t, i, <<"if", "ws+", "exists">>, 1, TRUE) # 0
           THEN 0 ELSE MatchSeq(t, i, pat, k + 1, ic)
      [] e = "(?!ws+if)" ->
           IF MatchSeq(t, i, <<"ws+", "if">>, 1, TRUE) # 0
           THEN 0 ELSE MatchSeq(t, i, pat, k + 1, ic)
      [] OTHER ->
           IF has /\ (IF ic THEN Lower(t[i]) = e ELSE t[i] = e)
           THEN MatchSeq(t, i + 1, pat, k + 1, ic) ELSE 0

(***************************************************************************)
(* A pattern with lazy parts is a sequence of segments joined by .*? :      *)
(* segs[1] .*? segs[2] .*? ...   The first segment is matched at i; each    *)
(* following segment is matched at the first index from which the rest of   *)
(* the pattern matches (the lazy quantifier tries the shortest gap first).  *)
(* Without re.DOTALL a gap does not cross a newline.                        *)
(***************************************************************************)
\* the value of the first index of rest that has one other than 0 (the
\* shortest gap of a lazy quantifier from which the rest matches), 0 if none
FirstMatch(rest) ==
  IF \A q \in DOMAIN rest : rest[q] = 0 THEN 0
  ELSE rest[Min({q \in DOMAIN rest : rest[q] # 0})]

RECURSIVE LazyRest(_, _, _, _, _, _)
\* the segments from the k-th on, after a match of the earlier ones that
\* ends before index p (p = 0: the earlier ones did not match)
LazyRest(t, p, segs, k, ic, dotall) ==
  IF p = 0 \/ k > Len(segs) THEN p
  ELSE FirstMatch([q \in p..(Len(t) + 1) |->
                     IF dotall \/ \A j \in p..(q - 1) : t[j] # "\n"
                     THEN LazyRest(t, MatchSeq(t, q, segs[k], 1, ic), segs, k + 1, ic,
                                   dotall)
                     ELSE 0])

\* re.match of the pattern at index i: the index after the match, or 0
MatchAt(t, i, segs, ic, dotall) ==
  LazyRest(t, MatchSeq(t, i, segs[1], 1, ic), segs, 2, ic, dotall)

\* The scan of re.finditer and re.sub over a text of n tokens: the spans
\* <<start, end>> (end exclusive) of the non-overlapping matches, leftmost
\* first, when a match that starts at i ends at ends[i] (0: no match at i)
SelectSpans(n, ends) ==
  LET starts == {i \in 1..n : ends[i] > i}
      from[i \in 1..(n + 1)] ==
        LET later == {j \in starts : j >= i}
        IN IF later = {} THEN <<>>
           ELSE <<<<Min(later), ends[Min(later)]>>>> \o from[ends[Min(later)]]
  IN from[1]

\* re.finditer with the pattern segs
FindAll(t, segs, ic, dotall) ==
  SelectSpans(Len(t), [i \in 1..Len(t) |-> MatchAt(t, i, segs, ic, dotall)])

\* t with the k-th span replaced by repls[k]
Splice(t, spans, repls) ==
  LET n == Len(t)
      m == Len(spans)
      out[k \in 1..(m + 1)] ==
        LET start == IF k = 1 THEN 1 ELSE spans[k - 1][2]
            stop == IF k > m THEN n + 1 ELSE spans[k][1]
            keep == SubSeq(t, start, stop - 1)
        IN IF k > m THEN keep ELSE keep \o repls[k] \o out[k + 1]
  IN out[1]

\* t with every span <<i, e>> replaced by repl(t, i, e)
SpliceWith(t, spans, repl(_, _, _)) ==
  Splice(t, spans, [k \in DOMAIN spans |-> repl(t, spans[k][1], spans[k][2])])

\* re.sub(pattern, repl, t) with a function repl: repl(t, i, e) is what the
\* function returns for the match t[i..e-1]
Sub(t, segs, ic, dotall, repl(_, _, _)) ==
  SpliceWith(t, FindAll(t, segs, ic, dotall), repl)

\* re.sub with a constant replacement
SubConst(t, segs, ic, dotall, repl) ==
  Sub(t, segs, ic, dotall, LAMBDA s, i, e : repl)

\* the text of a group (.*?) that starts at `from` and ends where the rest
\* of the pattern, tail, first matches
LazyGroup(t, from, tail) ==
  SubSeq(t, from, Min({q \in from..(Len(t) + 1) : MatchSeq(t, q, tail, 1, TRUE) # 0}) - 1)

\* [Op(x) for x in seq]
Map(seq, Op(_)) == [k \in DOMAIN seq |-> Op(seq[k])]

\* `needle in text` for a needle of whole tokens
Contains(t, needle) ==
  \E i \in 1..Len(t) :
    /\ i + Len(needle) - 1 <= Len(t)
    /\ SubSeq(t, i, i + Len(needle) - 1) = needle

\* str.split('\n')
SplitLines(t) ==
  LET n == Len(t)
      from[i \in 1..(n + 1)] ==
        LET e == IndexOf(t, i, "\n")
        IN IF e > n THEN <<SubSeq(t, i, n)>>
           ELSE <<SubSeq(t, i, e - 1)>> \o from[e + 1]
  IN from[1]

\* '\n'.join(lines)
JoinLines(lines) ==
  Flat([k \in DOMAIN lines |-> IF k = 1 THEN lines[k] ELSE <<"\n">> \o lines[k]])

\* str.strip()
Strip(t) ==
  IF \A i \in DOMAIN t : IsWs(t[i]) THEN <<>>
  ELSE SubSeq(t, Min({i \in DOMAIN t : ~IsWs(t[i])}), Max({i \in DOMAIN t : ~IsWs(t[i])}))

(***************************************************************************)
(* The mapping stores.                                                      *)
(***************************************************************************)
\* type_mappings_manager.DEFAULT_TYPE_MAPPINGS, in dict order: <<key, target>>
DEFAULT_TYPE_MAPPINGS == <<
  <<"bigint", <<"BIGINT">>>>,
  <<"int", <<"INTEGER">>>>,
  <<"smallint", <<"SMALLINT">>>>,
  <<"tinyint", <<"SMALLINT">>>>,
  <<"bit", <<"BOOLEAN">>>>,
  <<"decimal", <<"DECIMAL">>>>,
  <<"numeric", <<"NUMERIC">>>>,
  <<"money", <<"NUMERIC", "(", "19", ",", "4", ")">>>>,
  <<"smallmoney", <<"NUMERIC", "(", "10", ",", "4", ")">>>>,
  <<"float", <<"DOUBLE", " ", "PRECISION">>>>,
  <<"real", <<"REAL">>>>,
  <<"datetime", <<"TIMESTAMPTZ">>>>,
  <<"datetime2", <<"TIMESTAMPTZ">>>>,
  <<"smalldatetime", <<"TIMESTAMPTZ">>>>,
  <<"date", <<"DATE">>>>,
  <<"time", <<"TIME">>>>,
  <<"datetimeoffset", <<"TIMESTAMP", " ", "WITH", " ", "TIME", " ", "ZONE">>>>,
  <<"char", <<"CHAR">>>>,
  <<"varchar", <<"VARCHAR">>>>,
  <<"text", <<"TEXT">>>>,
  <<"nchar", <<"CHAR">>>>,
  <<"nvarchar", <<"VARCHAR">>>>,
  <<"ntext", <<"TEXT">>>>,
  <<"binary", <<"BYTEA">>>>,
  <<"varbinary", <<"BYTEA">>>>,
  <<"image", <<"BYTEA">>>>,
  <<"uniqueidentifier", <<"UUID">>>>,
  <<"xml", <<"XML">>>> >>

\* A type_mappings_config.json a user saved from the mappings editor: the
\* "type_mappings" object, in file order.
ConfiguredTypeMappings == <<
  <<"datetime", <<"TIMESTAMP">>>>,
  <<"timestamp", <<"BYTEA">>>> >>

\* The states of the resource type_mappings_config.json that the loader
\* tells apart: no file, a file that does not parse, a file with an empty
\* "type_mappings" object, a file with a non-empty one.
\* Another file has a target that is no string.
TypeConfigFiles == {"absent", "corrupt", "empty", "configured", "mistyped"}

\* The targets that stand for JSON values that are no strings: null
NotAString == {<<"null">>}

\* A type_mappings_config.json with {"datetime": "TIMESTAMP", "int": null}
MistypedTypeMappings == <<
  <<"datetime", <<"TIMESTAMP">>>>,
  <<"int", <<"null">>>> >>

\* A type_mappings_config.json with {"type_mappings": ["int"]}: the value
\* under "type_mappings" is a JSON array
ListTypeMappings == <<"int">>

\* type_mappings_manager.load_type_mappings_with_fallback: the value under
\* "type_mappings" when the file parses, is a JSON object and the value is
\* truthy, else the default table
load_type_mappings_with_fallback(file) ==
  IF file = "configured" THEN ConfiguredTypeMappings
  ELSE IF file = "mistyped" THEN MistypedTypeMappings
  ELSE IF file = "list" THEN ListTypeMappings
  ELSE DEFAULT_TYPE_MAPPINGS

\* The collation store's table, in dict order: <<source name, candidates>>
DEFAULT_COLLATIONS == <<
  <<"Latin1_General_CS_AS", <<"C">>>>,
  <<"Latin1_General_CI_AS", <<"de_DE", "default">>>> >>

\* collations_manager.load_collations_with_fallback
load_collations_with_fallback == DEFAULT_COLLATIONS

\* str() of a Python list of strings, as text: ['a', 'b']
PyListStr(l) ==
  <<"[">>
  \o Flat([k \in DOMAIN l |->
             (IF k = 1 THEN <<>> ELSE <<",", " ">>) \o <<"'", l[k], "'">>])
  \o <<"]">>

(***************************************************************************)
(* The rewrite rules.  Each takes the text and returns the new text with    *)
(* the entries it appends to self.conversion_log.                           *)
(***************************************************************************)
Entry(rule, key, n) == [rule |-> rule, key |-> key, n |-> n]

Result(text, log) == [text |-> text, log |-> log]

\* `if matches > 0: self.conversion_log.append(...)`: the entries a rule
\* that counts its matches appends
LogCount(rule, matches) == IF matches > 0 THEN <<Entry(rule, "", matches)>> ELSE <<>>

\* `if matches > 0: result = re.sub(...); self.conversion_log.append(...)`:
\* res with the new text and the entry when the pattern has matches
CountedPass(res, matches, text, rule) ==
  IF matches > 0 THEN Result(text, Append(res.log, Entry(rule, "", matches))) ELSE res

\* re.sub(pattern, callback, text) with a callback that appends one entry
\* for each match it rewrites
CallbackPass(res, segs, ic, dotall, repl(_, _, _), rule) ==
  Result(Sub(res.text, segs, ic, dotall, repl),
         res.log \o Map(FindAll(res.text, segs, ic, dotall),
                        LAMBDA span : Entry(rule, "", 1)))

\* FlywayConverter._convert_go_statements
_convert_go_statements(sql) ==
  LET pattern == <<<<"bol", "ws*", "go", "ws*eol">>>>
  IN Result(SubConst(sql, pattern, TRUE, FALSE, <<";">>),
            LogCount("GO", Len(FindAll(sql, pattern, TRUE, FALSE))))

\* re.sub(r'\bkey\b', target, result, flags=re.IGNORECASE)
SubWord(t, key, target) == SubConst(t, <<<<Lower(key)>>>>, TRUE, FALSE, target)

\* the body of the loop of _convert_data_types:
\* `if new_result != result: log; result = new_result`
TypeMappingPass(res, new_result, mssql_type) ==
  IF new_result # res.text
  THEN Result(new_result, Append(res.log, Entry("type", mssql_type, 0)))
  ELSE res

RECURSIVE ApplyTypeMapping(_, _, _)
\* the loop over self.TYPE_MAPPING.items() of _convert_data_types, from the
\* k-th pair on (on an empty text every pass is a no-op)
ApplyTypeMapping(res, table, k) ==
  IF k > Len(table) \/ res.text = <<>> THEN res
  ELSE ApplyTypeMapping(
         TypeMappingPass(res, SubWord(res.text, table[k][1], table[k][2]), table[k][1]),
         table, k + 1)

\* r'BYTEA\s*\(\s*max\s*\)'
pattern_bytea_max == <<<<"bytea", "ws*", "(", "ws*", "max", "ws*", ")">>>>

\* r'VARCHAR\s*\(\s*MAX\s*\)': without \b, it matches the end of a word
pattern_varchar_max == <<<<"...varchar", "ws*", "(", "ws*", "max", "ws*", ")">>>>

\* BYTEA(max) -> BYTEA, the first step of _convert_data_types
ByteaMaxPass(res) ==
  CountedPass(res, Len(FindAll(res.text, pattern_bytea_max, TRUE, FALSE)),
              SubConst(res.text, pattern_bytea_max, TRUE, FALSE, <<"BYTEA">>),
              "BYTEA(max)")

\* what re.sub(pattern_varchar_max, 'TEXT', ...) leaves of the match
\* t[i..e-1]: the start of the word before VARCHAR, and TEXT
VarcharMaxToText(t, i, e) == <<EndsWithVarchar[Lower(t[i])]>>

\* VARCHAR(MAX) -> TEXT, the second step of _convert_data_types
VarcharMaxPass(res) ==
  CountedPass(res, Len(FindAll(res.text, pattern_varchar_max, TRUE, FALSE)),
              Sub(res.text, pattern_varchar_max, TRUE, FALSE, VarcharMaxToText),
              "VARCHAR(MAX)")

\* FlywayConverter._convert_data_types
_convert_data_types(sql, TYPE_MAPPING) ==
  ApplyTypeMapping(VarcharMaxPass(ByteaMaxPass(Result(sql, <<>>))), TYPE_MAPPING, 1)

\* the pairs of the table for which re.sub(mssql_type, pg_type, ...) raises
\* TypeError: pg_type is no string
RaisingPairs(table) == {k \in DOMAIN table : table[k][2] \in NotAString}

\* _convert_data_types up to the pair at which re.sub raises: the entries
\* appended to self.conversion_log before the exception
DataTypesUntilRaise(sql, table) ==
  ApplyTypeMapping(VarcharMaxPass(ByteaMaxPass(Result(sql, <<>>))),
                   SubSeq(table, 1, Min(RaisingPairs(table)) - 1), 1)

\* the body of the loop of _convert_collations on r = <<result, changes_made>>:
\* `if new_result != result: changes_made += 1; result = new_result`
CollationPass(r, new_result) == IF new_result # r[1] THEN <<new_result, r[2] + 1>> ELSE r

RECURSIVE ApplyCollations(_, _, _)
\* the loop over self.collations.items() of _convert_collations, from the
\* k-th pair on, on r = <<result, changes_made>>
ApplyCollations(r, collations, k) ==
  IF k > Len(collations) THEN r
  ELSE ApplyCollations(
         CollationPass(r, SubConst(r[1], <<<<"collate", "ws+", Lower(collations[k][1])>>>>,
                                   TRUE, FALSE,
                                   <<"COLLATE", " ", "\"">> \o PyListStr(collations[k][2])
                                   \o <<"\"">>)),
         collations, k + 1)

\* the end of _convert_collations, on r = <<result, changes_made>>
CollationsResult(r) == Result(r[1], LogCount("Collations", r[2]))

\* FlywayConverter._convert_collations
_convert_collations(sql, collations) ==
  CollationsResult(ApplyCollations(<<sql, 0>>, collations, 1))

\* FlywayConverter._remove_dbo_prefix: the count is taken without
\* re.IGNORECASE, the substitution with it
_remove_dbo_prefix(sql) ==
  LET pattern == <<<<"dbo", ".">>>>
  IN Result(SubConst(sql, pattern, TRUE, FALSE, <<>>),
            LogCount("dbo.", Len(FindAll(sql, pattern, FALSE, FALSE))))

\* r'"\1"' for the match t[i..e-1] of r'\[([^\]]+)\]'
QuoteIdentifier(t, i, e) == <<"\"">> \o SubSeq(t, i + 1, e - 2) \o <<"\"">>

\* FlywayConverter._convert_bracket_identifiers
_convert_bracket_identifiers(sql) ==
  LET pattern == <<<<"[", "notrbracket+", "]">>>>
  IN Result(Sub(sql, pattern, FALSE, FALSE, QuoteIdentifier),
            LogCount("Bracket-Identifiers", Len(FindAll(sql, pattern, FALSE, FALSE))))

\* n spaces of indentation
Indent(n) == [k \in 1..n |-> " "]

\* the lambda of convert_declare_if_ddl for the match t[i..e-1] of
\* r'drop\s+(\w+)\s+': f'drop {m.group(1)} if exists '
DropIfExists(t, i, e) ==
  <<"drop", " ", t[SkipWs(t, i + 1)], " ", "if", " ", "exists", " ">>

\* convert_declare_if_ddl, the body of the loop: `if 'drop' in line_lower
\* and 'if exists' not in line_lower: line = re.sub(...)`
GuardDrop(line) ==
  IF Contains(LowerText(line), <<"drop">>)
     /\ ~Contains(LowerText(line), <<"if", " ", "exists">>)
  THEN Sub(line, <<<<"drop", "ws+", "word", "ws+">>>>, TRUE, FALSE, DropIfExists)
  ELSE line

\* convert_declare_if_ddl, the body of the loop: `if 'drop table' in
\* line_lower and 'cascade' not in line_lower and line.endswith(';')`, with
\* the line_lower taken before the line was rewritten
AddCascade(line_lower, line) ==
  IF /\ Contains(line_lower, <<"drop", " ", "table">>)
     /\ ~Contains(line_lower, <<"cascade">>)
     /\ line # <<>> /\ line[Len(line)] = ";"
  THEN SubSeq(line, 1, Len(line) - 1) \o <<" ", "cascade", ";">>
  ELSE line

\* convert_declare_if_ddl, the body of the loop: one line of the DDL body
NormalizeDdlLine(line) == AddCascade(LowerText(line), GuardDrop(line))

\* convert_declare_if_ddl, from `lines = []` on: the normalized lines of
\* `body`, joined
NormalizeDdlBody(body) ==
  JoinLines(Map(SelectSeq(Map(SplitLines(body), Strip), LAMBDA l : l # <<>>),
                NormalizeDdlLine))

\* declare_if_ddl_pattern.  Its last part, the group
\* ((?:(?:drop|alter|create)\s+(?:table|index|constraint).*?;(?:\s|$))+)
\* followed by \s*end, is under re.DOTALL a DDL head, any text, and the
\* first `;` that whitespace and `end` follow.
declare_if_ddl_pattern == <<
  <<"declare", "ws+", "@", "word", "ws+", "boolean", "ws*", "=", "ws*", "1", ";">>,
  <<"if", "ws+", "@", "word", "ws*", "=", "ws*", "1", "ws*", "begin", "ws+",
    "ddlverb", "ws+", "ddlobj">>,
  <<";", "ws+", "end">> >>

\* match.group(1) of declare_if_ddl_pattern for the match at i: the \w+
\* after `declare @`
DeclareIfGroup1(t, i) == <<t[IndexOf(t, i, "@") + 1]>>

\* convert_declare_if_ddl for the match t[i..e-1]: `body = match.group(1)`
convert_declare_if_ddl(t, i, e) == NormalizeDdlBody(DeclareIfGroup1(t, i))

pattern_if_exists == <<
  <<"if", "ws+", "exists", "ws*", "(", "notrparen+", ")", "ws*", "begin", "ws+">>,
  <<"ws*", "end", "(?!ws+if)">> >>

\* wrap_if_exists_block: `condition = match.group(1).strip()`, for the
\* match that starts at i and whose parenthesis opens at `open`
IfExistsCondition(t, open) == Strip(SubSeq(t, open + 1, IndexOf(t, open, ")") - 1))

\* r'\1' for the match t[i..e-1] of r'\[(\w+)\]'
Unbracket(t, i, e) == <<t[i + 1]>>

\* wrap_if_exists_block: `body = match.group(2).strip()` and the two
\* re.sub on it
IfExistsBody(group2) ==
  Sub(SubConst(Strip(group2), <<<<"dbo", ".">>>>, TRUE, FALSE, <<>>),
      <<<<"[", "word", "]">>>>, TRUE, FALSE, Unbracket)

\* wrap_if_exists_block for the match t[i..e-1]
wrap_if_exists_block(t, i, e) ==
  <<"DO", " ", "$$", "\n", "BEGIN", "\n">>
  \o Indent(4) \o <<"IF", " ", "EXISTS", " ", "(">>
  \o IfExistsCondition(t, IndexOf(t, i, "("))
  \o <<")", " ", "THEN", "\n">>
  \o Indent(8)
  \o IfExistsBody(LazyGroup(t, MatchSeq(t, i, pattern_if_exists[1], 1, TRUE),
                            pattern_if_exists[2]))
  \o <<";", "\n">>
  \o Indent(4) \o <<"END", " ", "IF", ";", "\n", "END", " ", "$$", ";">>

\* FlywayConverter._wrap_if_exists_in_do_blocks
_wrap_if_exists_in_do_blocks(sql) ==
  CallbackPass(
    CallbackPass(Result(sql, <<>>), declare_if_ddl_pattern, TRUE, TRUE,
                 convert_declare_if_ddl, "DECLARE + IF (DDL-only) -> Direct DDL"),
    pattern_if_exists, TRUE, TRUE, wrap_if_exists_block, "IF EXISTS -> DO $$ Block")

\* FlywayConverter._convert_identity
_convert_identity(sql) ==
  LET pattern == <<<<"identity", "ws*", "(", "ws*", "digits", "ws*", ",", "ws*",
                     "digits", "ws*", ")">>>>
  IN Result(SubConst(sql, pattern, TRUE, FALSE,
                     <<"GENERATED", " ", "ALWAYS", " ", "AS", " ", "IDENTITY">>),
            LogCount("IDENTITY", Len(FindAll(sql, pattern, TRUE, FALSE))))

\* str.lstrip()
LStrip(t) ==
  IF \A i \in DOMAIN t : IsWs(t[i]) THEN <<>>
  ELSE SubSeq(t, Min({i \in DOMAIN t : ~IsWs(t[i])}), Len(t))

\* str.rstrip()
RStrip(t) ==
  IF \A i \in DOMAIN t : IsWs(t[i]) THEN <<>>
  ELSE SubSeq(t, 1, Max({i \in DOMAIN t : ~IsWs(t[i])}))

\* r'DECLARE\s+\w+\s+\w+\s*=\s*[^;]*;'
declare_pattern ==
  <<<<"declare", "ws+", "word", "ws+", "word", "ws*", "=", "ws*", "notsemi*", ";">>>>

\* r'IF\s+(\w+)\s*=\s*1\s+BEGIN'
if_var_begin_pattern == <<<<"if", "ws+", "word", "ws*", "=", "ws*", "1", "ws+", "begin">>>>

\* r'IF\s+(.+?)\s+BEGIN'
if_begin_pattern == <<<<"if", "ws+", "any">>, <<"ws+", "begin">>>>

\* r'\1' for the match t[i..e-1] of r'@(\w+)'
DropAt(t, i, e) == <<t[i + 1]>>

\* the value format_declare writes: 1 is true, 0 is false
DeclareValue(value) ==
  IF value = <<"1">> THEN <<"true">> ELSE IF value = <<"0">> THEN <<"false">> ELSE value

\* format_declare for the match t[i..e-1]
format_declare(t, i, e) ==
  LET v == SkipWs(t, i + 1)
      ty == SkipWs(t, v + 1)
  IN <<"DECLARE", " ", Lower(t[v]), " ", Lower(t[ty]), " ", ":=", " ">>
     \o DeclareValue(Strip(SubSeq(t, IndexOf(t, ty, "=") + 1, e - 2)))
     \o <<";">>

\* fix_declare for the match t[i..e-1]
fix_declare(t, i, e) ==
  LET eq == IndexOf(t, i, "=")
  IN RStrip(SubSeq(t, i, eq - 1)) \o <<" ", ":=", " ">> \o LStrip(SubSeq(t, eq + 1, e - 1))

\* group(1) of r'IF\s+(.+?)\s+BEGIN' for a match that ends before e, when
\* the group starts at from
IfCondition(t, from, e) ==
  SubSeq(t, from,
         Min({q \in (from + 1)..(e - 2) : IsWs(t[q]) /\ SkipWs(t, q) = e - 1}) - 1)

\* str.lower() when lower is set
LowerIf(lower, t) == IF lower THEN LowerText(t) ELSE t

\* the two substitutions of a pair of STEP 3 of convert_do_block_content;
\* lower is TRUE for the first pair (which lower-cases the condition)
ConvertIfBegin(content, lower) ==
  Sub(Sub(content, if_var_begin_pattern, TRUE, TRUE,
          LAMBDA t, i, e :
            <<"IF", " ">> \o LowerIf(lower, <<t[SkipWs(t, i + 1)]>>) \o <<" ", "THEN">>),
      if_begin_pattern, TRUE, TRUE,
      LAMBDA t, i, e :
        <<"IF", " ">> \o LowerIf(lower, Strip(IfCondition(t, SkipWs(t, i + 1), e)))
        \o <<" ", "THEN">>)

\* the test `'IF ' in stripped and 'THEN' in stripped` of STEP 4
OpensIf(line) ==
  /\ \E k \in 1..(Len(line) - 1) : Lower(line[k]) = "if" /\ line[k + 1] = " "
  /\ \E k \in DOMAIN line : Lower(line[k]) = "then"

\* the test `stripped == 'END' or stripped == 'END;'` of STEP 4
IsEndLine(line) == LowerText(Strip(line)) \in {<<"end">>, <<"end", ";">>}

\* re.sub(r'\bEND\s*;?$', 'END IF;', line) on a line that IsEndLine
EndToEndIf(line) ==
  LET at == Min({k \in DOMAIN line : ~IsWs(line[k])})
  IN IF MatchSeq(line, at, <<"end", "ws*", ";?">>, 1, TRUE) = Len(line) + 1
     THEN SubSeq(line, 1, at - 1) \o <<"END", " ", "IF", ";">>
     ELSE line

RECURSIVE EndIfLoop(_, _, _, _)
\* STEP 4 of convert_do_block_content, one line after its test for an
\* opening IF: in_if_block and if_depth are the loop's variables then
EndIfLine(lines, k, in_if_block, if_depth) ==
  IF IsEndLine(lines[k]) /\ in_if_block /\ if_depth > 0
  THEN <<EndToEndIf(lines[k])>> \o EndIfLoop(lines, k + 1, if_depth - 1 # 0, if_depth - 1)
  ELSE <<lines[k]>> \o EndIfLoop(lines, k + 1, in_if_block, if_depth)

\* STEP 4 of convert_do_block_content: the loop over the lines, from line k
\* on, with the loop's in_if_block and if_depth
EndIfLoop(lines, k, in_if_block, if_depth) ==
  IF k > Len(lines) THEN <<>>
  ELSE IF OpensIf(lines[k]) THEN EndIfLine(lines, k, TRUE, if_depth + 1)
  ELSE EndIfLine(lines, k, in_if_block, if_depth)

\* convert_do_block_content, STEP 1 to STEP 3: the @ of the variables, the
\* DECLAREs and the IF ... BEGIN
ConvertDeclaresAndIfs(block_content) ==
  ConvertIfBegin(
    Sub(ConvertIfBegin(
          Sub(Sub(block_content, <<<<"@", "word">>>>, FALSE, TRUE, DropAt),
              declare_pattern, TRUE, FALSE, format_declare),
          TRUE),
        declare_pattern, TRUE, FALSE, fix_declare),
    FALSE)

\* convert_do_block_content, on match.group(1)
convert_do_block_content(block_content) ==
  <<"DO", " ", "$$", "\n">>
  \o SubConst(JoinLines(EndIfLoop(SplitLines(ConvertDeclaresAndIfs(block_content)),
                                  1, FALSE, 0)),
              <<<<"then", "ws+", "begin">>>>, TRUE, FALSE, <<"THEN">>)
  \o <<"\n", "$$", ";">>

\* r'DO\s*\$\$\s*(.*?)\s*\$\$\s*;?'
do_block_pattern == <<<<"do", "ws*", "$$", "ws*">>, <<"ws*", "$$", "ws*", ";?">>>>

\* convert_do_block for the match t[i..e-1] of do_block_pattern
convert_do_block(t, i, e) ==
  convert_do_block_content(
    LazyGroup(t, MatchSeq(t, i, do_block_pattern[1], 1, TRUE), do_block_pattern[2]))

\* FlywayConverter._convert_inside_do_blocks
_convert_inside_do_blocks(sql) ==
  CallbackPass(Result(sql, <<>>), do_block_pattern, TRUE, TRUE, convert_do_block,
               "DO $$ Block konvertiert")

\* CREATE FUNCTION name(params) RETURNS type, the head of the pattern of
\* the AS of a function
function_head ==
  <<"create", "ws+", "function", "ws+", "word", "params?", "ws+", "returns", "ws+",
    "nonspace">>

\* r'\1 AS $$' for the match t[i..e-1] of the head followed by \s+AS\s+
AsDollarQuote(t, i, e) ==
  SubSeq(t, i, MatchSeq(t, i, function_head, 1, TRUE) - 1) \o <<" ", "AS", " ", "$$">>

\* r'$$ LANGUAGE plpgsql;\1' for the match t[i..e-1] of r'\$\$\s*(GO|;)'
LanguageClause(t, i, e) == <<"$$", " ", "LANGUAGE", " ", "plpgsql", ";", t[e - 1]>>

\* FlywayConverter._convert_procedures_to_functions
_convert_procedures_to_functions(sql) ==
  LET pattern == <<<<"create", "ws+", "procedure", "ws+">>>>
  IN CountedPass(
       Result(sql, <<>>), Len(FindAll(sql, pattern, TRUE, FALSE)),
       Sub(Sub(Sub(SubConst(sql, pattern, TRUE, FALSE, <<"CREATE", " ", "FUNCTION", " ">>),
                   <<<<"@", "word">>>>, FALSE, FALSE, DropAt),
               <<function_head \o <<"ws+", "as", "ws+">>>>, TRUE, FALSE, AsDollarQuote),
           <<<<"$$", "ws*", "go|;">>>>, TRUE, FALSE, LanguageClause),
       "Stored Procedures zu Functions")

\* FlywayConverter._convert_transactions
_convert_transactions(sql) ==
  LET pattern == <<<<"begin", "ws+", "transaction">>>>
  IN Result(SubConst(sql, pattern, TRUE, FALSE, <<"BEGIN">>),
            LogCount("Transaction-Statements", Len(FindAll(sql, pattern, TRUE, FALSE))))

\* BEGIN EXEC sys.sp_addextendedproperty / sp_updateextendedproperty
exec_extended_property == <<"begin", "ws+", "exec", "ws+", "sys", ".", "sp_extprop">>

\* FlywayConverter._convert_extended_properties
_convert_extended_properties(sql) ==
  LET pattern == <<
        <<"if", "ws+", "exists", "ws*", "(", "ws*", "select", "ws+">>,
        <<"from", "ws+", "sys", ".", "extended_properties">>,
        <<")", "ws*">> \o exec_extended_property,
        <<"end", "ws*", "else", "ws*">> \o exec_extended_property,
        <<"end">> >>
  IN CountedPass(Result(sql, <<>>), Len(FindAll(sql, pattern, TRUE, TRUE)),
                 SubConst(sql, pattern, TRUE, TRUE, <<>>), "Extended Properties")

\* FlywayConverter._remove_parent_object_id
_remove_parent_object_id(sql) ==
  LET pattern == <<<<"ws*", "and", "ws+", "parent_object_id", "ws*", "=", "ws*",
                     "object_id", "ws*", "(", "notrparen*", ")">>>>
  IN CountedPass(Result(sql, <<>>), Len(FindAll(sql, pattern, TRUE, FALSE)),
                 SubConst(sql, pattern, TRUE, FALSE, <<>>), "parent_object_id Checks")

\* DROP INDEX IF EXISTS, the head of the pattern of _convert_drop_index
drop_index_head == <<"drop", "ws+", "index", "ws+", "if", "ws+", "exists", "ws+">>

\* r'drop index if exists \1' for the match t[i..e-1]
DropIndexName(t, i, e) ==
  <<"drop", " ", "index", " ", "if", " ", "exists", " ",
    t[MatchSeq(t, i, drop_index_head, 1, TRUE)]>>

\* `if new_sql != sql: self.conversion_log.append(...)`
ChangedPass(sql, new_sql, rule) ==
  Result(new_sql, IF new_sql # sql THEN <<Entry(rule, "", 0)>> ELSE <<>>)

\* FlywayConverter._convert_drop_index
_convert_drop_index(sql) ==
  ChangedPass(sql,
              Sub(sql, <<drop_index_head \o <<"word", "ws+", "on", "ws+", "word">>>>,
                  TRUE, FALSE, DropIndexName),
              "DROP INDEX ... ON")

\* DROP CONSTRAINT, the head of the pattern of Format 2
drop_constraint_head == <<"drop", "ws+", "constraint", "ws+">>

\* the replacement of Format 2 for the match t[i..e-1]
DropConstraintOfTableName(t, i, e) ==
  <<"ALTER", " ", "TABLE", " ", "table_name", " ", "DROP", " ", "CONSTRAINT", " ", "IF",
    " ", "EXISTS", " ", Lower(t[MatchSeq(t, i, drop_constraint_head, 1, TRUE)]), ";">>

\* the loop over the lines of _convert_drop_constraint (Format 2), one line
DropConstraintLine(line) ==
  IF Contains(LowerText(line), <<"drop", " ", "constraint">>)
     /\ ~Contains(LowerText(line), <<"alter", " ", "table">>)
  THEN Sub(line, <<drop_constraint_head \o <<"word", "ws*", ";?">>>>, TRUE, FALSE,
           DropConstraintOfTableName)
  ELSE line

\* ALTER TABLE, the head of pattern_alter
alter_table_head == <<"alter", "ws+", "table", "ws+">>

\* ALTER TABLE name DROP CONSTRAINT, the head of pattern_alter
alter_drop_constraint_head ==
  alter_table_head \o <<"word", "ws+", "drop", "ws+", "constraint", "ws+">>

\* r'ALTER\s+TABLE\s+(\w+)\s+DROP\s+CONSTRAINT\s+(\w+)\s*;'
pattern_alter == <<alter_drop_constraint_head \o <<"word", "ws*", ";">>>>

\* replace_alter_drop for the match t[i..e-1] of pattern_alter
replace_alter_drop(t, i, e) ==
  <<"ALTER", " ", "TABLE", " ", Lower(t[MatchSeq(t, i, alter_table_head, 1, TRUE)]), " ",
    "DROP", " ", "CONSTRAINT", " ", "IF", " ", "EXISTS", " ",
    Lower(t[MatchSeq(t, i, alter_drop_constraint_head, 1, TRUE)]), ";">>

\* FlywayConverter._convert_drop_constraint
_convert_drop_constraint(sql) ==
  Result(JoinLines(Map(SplitLines(Sub(sql, pattern_alter, TRUE, FALSE, replace_alter_drop)),
                       DropConstraintLine)),
         LogCount("ALTER TABLE DROP CONSTRAINT", Len(FindAll(sql, pattern_alter, TRUE, FALSE)))
         \o (IF Contains(sql, <<"DROP", " ", "CONSTRAINT">>)
                /\ ~Contains(sql, <<"ALTER", " ", "TABLE">>)
             THEN <<Entry("DROP CONSTRAINT (ohne ALTER TABLE)", "", 0)>> ELSE <<>>))

\* DROP <what> not followed by IF EXISTS, the head of a pattern of
\* _improve_drop_statements
improve_drop_head(what) == <<"drop", "ws+", what, "ws+", "(?!if exists)">>

\* one pattern of _improve_drop_statements: DROP <what> name; with no
\* IF EXISTS, rewritten with the guard, the lower-cased name and `tail`
ImproveDrop(res, what, WHAT, tail, rule) ==
  Result(Sub(res.text, <<improve_drop_head(what) \o <<"word", "ws*", ";">>>>, TRUE, FALSE,
             LAMBDA t, i, e :
               <<"DROP", " ", WHAT, " ", "IF", " ", "EXISTS", " ",
                 Lower(t[MatchSeq(t, i, improve_drop_head(what), 1, TRUE)])>>
               \o tail \o <<";">>),
         res.log
         \o LogCount(rule,
                     Len(FindAll(res.text,
                                 <<improve_drop_head(what) \o <<"word", "ws*", ";">>>>,
                                 TRUE, FALSE))))

\* FlywayConverter._improve_drop_statements
_improve_drop_statements(sql) ==
  ImproveDrop(ImproveDrop(Result(sql, <<>>), "table", "TABLE", <<" ", "CASCADE">>,
                          "DROP TABLE-Statements verbessert"),
              "index", "INDEX", <<>>, "DROP INDEX-Statements verbessert")

\* IF OBJECT_ID(, the head of the patterns of _convert_object_id_checks
object_id_head == <<"if", "ws+", "object_id", "ws*", "(">>

\* FlywayConverter._convert_object_id_checks
_convert_object_id_checks(sql) ==
  Result(SubConst(sql, <<object_id_head \o <<"notrparen*", ")", "notsemi*", "\n", "ws*">>>>,
                  TRUE, FALSE, <<>>),
         LogCount("object_id() checks",
                  Len(FindAll(sql,
                              <<object_id_head
                                \o <<"notrparen+", ")", "notsemi*",
                                     "is", "ws+", "not", "ws+", "null", "ws+">>>>,
                              TRUE, FALSE))))

\* FlywayConverter._convert_timestamp_defaults
_convert_timestamp_defaults(sql) ==
  LET pattern == <<<<"default", "ws+", "current_timestamp">>>>
  IN Result(SubConst(sql, pattern, TRUE, FALSE, <<"default", " ", "current_timestamp">>),
            LogCount("DEFAULT CURRENT_TIMESTAMP", Len(FindAll(sql, pattern, TRUE, FALSE))))

\* FlywayConverter._convert_if_exists_statements (the second definition of
\* that name in the class, which is the one Python binds)
_convert_if_exists_statements(sql) ==
  LET pattern == <<
        <<"if", "ws+", "exists", "ws*", "(", "ws*", "select", "ws+", "*", "ws+", "from",
          "ws+", "sys", ".", "foreign_keys", "ws+", "where", "ws+", "object_id">>,
        <<")", "ws*nl">> >>
  IN CountedPass(Result(sql, <<>>), Len(FindAll(sql, pattern, TRUE, TRUE)),
                 SubConst(sql, pattern, TRUE, TRUE, <<>>), "sys.foreign_keys IF EXISTS")

\* keywords_in_create of _lowercase_keywords_and_identifiers, as patterns
keywords_in_create == <<
  <<"primary", " ", "key">>, <<"foreign", " ", "key">>, <<"unique">>,
  <<"not", " ", "null">>, <<"default">>, <<"check">>, <<"drop", " ", "table">>,
  <<"drop", " ", "index">>, <<"drop", " ", "constraint">>, <<"alter", " ", "table">>,
  <<"create", " ", "table">> >>

\* data_types of _lowercase_keywords_and_identifiers, as patterns
data_types == <<
  <<"varchar">>, <<"char">>, <<"text">>, <<"bytea">>, <<"integer">>, <<"smallint">>,
  <<"bigint">>, <<"decimal">>, <<"numeric">>, <<"float">>, <<"double">>,
  <<"precision">>, <<"boolean">>, <<"timestamp">>, <<"date">>, <<"time">> >>

RECURSIVE LowerEach(_, _, _)
\* for upper, lower in patterns: re.sub(rf'\b{upper}\b', lower, ...), from
\* the k-th pattern on (on an empty text every pass is a no-op)
LowerEach(text, patterns, k) ==
  IF k > Len(patterns) \/ text = <<>> THEN text
  ELSE LowerEach(SubConst(text, <<patterns[k]>>, TRUE, FALSE, patterns[k]), patterns, k + 1)

\* CREATE TABLE, the head of the table-name patterns
create_table_head == <<"create", "ws+", "table", "ws+">>

\* the match t[i..e-1] of r'(CREATE\s+TABLE\s+)"([A-Z_][A-Z0-9_]*)"(\s*\()'
\* whose quote is at q, without the quotes (the lambda lower-cases the head
\* and leaves the name as it is)
UnquoteTableName(t, i, e, q) ==
  SubSeq(t, i, q - 1) \o <<t[q + 1]>> \o SubSeq(t, q + 3, e - 1)

\* the match t[i..e-1] of r'(CREATE\s+TABLE\s+)([A-Z_][A-Z0-9_]*)(\s*\()'
\* whose name is at q, with the name in lower case
LowerTableName(t, i, e, q) ==
  SubSeq(t, i, q - 1) \o <<Lower(t[q])>> \o SubSeq(t, q + 1, e - 1)

\* the match t[i..e-1] of the column pattern: four spaces, the name in
\* lower case, a space, the type with its matched start in lower case
LowerColumn(t, i, e) ==
  <<" ", " ", " ", " ", Lower(t[SkipWs(t, i)]), " ", LowerTypePrefix(t[e - 1])>>

\* _lowercase_keywords_and_identifiers: the table and column names
LowerIdentifiers(t) ==
  Sub(Sub(Sub(t, <<create_table_head \o <<"\"", "ident", "\"", "ws*", "(">>>>, TRUE, FALSE,
              LAMBDA s, i, e :
                UnquoteTableName(s, i, e, MatchSeq(s, i, create_table_head, 1, TRUE))),
          <<create_table_head \o <<"ident", "ws*", "(">>>>, TRUE, FALSE,
          LAMBDA s, i, e :
            LowerTableName(s, i, e, MatchSeq(s, i, create_table_head, 1, TRUE))),
      <<<<"bol", "ws+", "ident", "ws+", "typeprefix">>>>, TRUE, FALSE, LowerColumn)

\* _lowercase_keywords_and_identifiers: CASCADE, IF EXISTS, THEN, END IF
LowerControlWords(t) ==
  SubConst(
    SubConst(
      SubConst(SubConst(t, <<<<"cascade">>>>, TRUE, FALSE, <<"cascade">>),
               <<<<"if", "ws+", "exists">>>>, TRUE, FALSE, <<"if", " ", "exists">>),
      <<<<"then">>>>, TRUE, FALSE, <<"then">>),
    <<<<"end", "ws+", "if">>>>, TRUE, FALSE, <<"end", " ", "if">>)

\* FlywayConverter._lowercase_keywords_and_identifiers
_lowercase_keywords_and_identifiers(sql) ==
  Result(LowerControlWords(
           LowerIdentifiers(LowerEach(LowerEach(sql, keywords_in_create, 1),
                                      data_types, 1))),
         <<>>)

\* str.startswith of the upper-cased, stripped line
StartsWith(line, words) ==
  LET l == LowerText(Strip(line))
  IN Len(l) >= Len(words) /\ SubSeq(l, 1, Len(words)) = words

\* str.rstrip(';')
RStripSemi(t) ==
  IF \A i \in DOMAIN t : t[i] = ";" THEN <<>>
  ELSE SubSeq(t, 1, Max({i \in DOMAIN t : t[i] # ";"}))

\* the three groups of _format_sql_output: what the grouped lines start
\* with, the words of the comment header, whether CASCADE is appended
DropGroups == <<
  [start |-> <<"drop", " ", "index">>, header |-> <<"Drop", " ", "indexes">>,
   cascade |-> FALSE],
  [start |-> <<"alter", " ", "table">>, header |-> <<"Drop", " ", "constraints">>,
   cascade |-> FALSE],
  [start |-> <<"drop", " ", "table">>, header |-> <<"Drop", " ", "tables">>,
   cascade |-> TRUE] >>

\* the index of the first line from i on that does not start with `start`
GroupEnd(lines, i, start) ==
  Min({j \in i..(Len(lines) + 1) : j = Len(lines) + 1 \/ ~StartsWith(lines[j], start)})

\* one statement of a group, as _format_sql_output emits it
GroupLine(line, cascade) ==
  LET stmt == Strip(line)
  IN Indent(4)
     \o (IF cascade /\ ~Contains(LowerText(stmt), <<"cascade">>)
         THEN RStripSemi(stmt) \o <<" ", "CASCADE", ";">>
         ELSE stmt)

RECURSIVE FormatLoop(_, _, _)
\* a group of _format_sql_output: the lines i..e-1 are its statements, g is
\* its entry of DropGroups; the comment header, the statements and the rest
\* of the loop
FormatGroup(lines, i, e, g, in_do_block) ==
  <<Indent(4) \o <<"--", " ">> \o g.header>>
  \o [k \in 1..(e - i) |-> GroupLine(lines[i + k - 1], g.cascade)]
  \o FormatLoop(lines, e, in_do_block)

\* the groups that line i opens inside a DO block: the first of groups when
\* there is one
FormatLine(lines, i, groups, in_do_block) ==
  IF in_do_block /\ groups # {}
  THEN FormatGroup(lines, i, GroupEnd(lines, i, DropGroups[Min(groups)].start),
                   DropGroups[Min(groups)], in_do_block)
  ELSE <<lines[i]>> \o FormatLoop(lines, i + 1, in_do_block)

\* the while loop of _format_sql_output from line i on, with in_do_block;
\* the formatted lines
FormatLoop(lines, i, in_do_block) ==
  IF i > Len(lines) THEN <<>>
  ELSE IF Contains(lines[i], <<"DO", " ", "$$">>)
  THEN <<lines[i]>> \o FormatLoop(lines, i + 1, TRUE)
  ELSE IF in_do_block /\ Strip(lines[i]) = <<"$$", ";">>
  THEN <<lines[i]>> \o FormatLoop(lines, i + 1, FALSE)
  ELSE FormatLine(lines, i,
                  {g \in DOMAIN DropGroups : StartsWith(lines[i], DropGroups[g].start)},
                  in_do_block)

\* FlywayConverter._format_sql_output
_format_sql_output(sql) ==
  Result(JoinLines(FormatLoop(SplitLines(sql), 1, FALSE)),
         <<Entry("SQL formatiert", "", 0)>>)

\* r'\n\s*\n\s*\n+' at index i: a whitespace run that starts with a newline
\* at i and holds at least three newlines, up to its last newline; the
\* index after the match, or 0
BlankLinesEnd(t, i) ==
  LET nl == {j \in i..(SkipWs(t, i) - 1) : t[j] = "\n"}
  IN IF i <= Len(t) /\ t[i] = "\n" /\ Cardinality(nl) >= 3 THEN Max(nl) + 1 ELSE 0

\* re.sub(r'\n\s*\n\s*\n+', '\n\n', t)
CollapseBlankLines(t) ==
  SpliceWith(t, SelectSpans(Len(t), [i \in 1..Len(t) |-> BlankLinesEnd(t, i)]),
             LAMBDA s, i, e : <<"\n", "\n">>)

\* FlywayConverter._cleanup_empty_lines_and_semicolons
_cleanup_empty_lines_and_semicolons(sql) ==
  LET pattern_multiple_semicolons == <<<<";", "ws*", ";", "ws*">>>>
  IN Result(
       Strip(JoinLines(SelectSeq(
         SplitLines(CollapseBlankLines(
           SubConst(sql, pattern_multiple_semicolons, FALSE, FALSE, <<";", "\n">>))),
         LAMBDA line : Strip(line) # <<";">>))),
       LogCount("Mehrfache Semikolons",
                Len(FindAll(sql, pattern_multiple_semicolons, FALSE, FALSE))))

(***************************************************************************)
(* The scripts and the source directories of the model.                     *)
(***************************************************************************)
\* the always-true guard of spec 4.3 step 6a:
\* declare @X boolean = 1; if @X = 1 begin drop table T; end
declare_if_ddl == <<
  "declare", " ", "@", "X", " ", "boolean", " ", "=", " ", "1", ";", " ", "if", " ",
  "@", "X", " ", "=", " ", "1", " ", "begin", " ", "drop", " ", "table", " ", "T", ";",
  " ", "end" >>

\* a guard on another variable than the declared one:
\* declare @X boolean = 1; if @Y = 1 begin drop table T; end
declare_if_other_variable == <<
  "declare", " ", "@", "X", " ", "boolean", " ", "=", " ", "1", ";", " ", "if", " ",
  "@", "Y", " ", "=", " ", "1", " ", "begin", " ", "drop", " ", "table", " ", "T", ";",
  " ", "end" >>

\* a guarded body with an INSERT between two DROPs:
\* declare @X boolean = 1; if @X = 1 begin drop table T; insert into U values (1); drop table U; end
declare_if_insert == <<
  "declare", " ", "@", "X", " ", "boolean", " ", "=", " ", "1", ";", " ", "if", " ",
  "@", "X", " ", "=", " ", "1", " ", "begin", " ", "drop", " ", "table", " ", "T", ";",
  " ", "insert", " ", "into", " ", "U", " ", "values", " ", "(", "1", ")", ";", " ",
  "drop", " ", "table", " ", "U", ";", " ", "end" >>

\* the existence guard of spec 4.3 step 6b:
\* IF EXISTS (SELECT 1 FROM sys.foo) BEGIN delete from t END
if_exists_simple == <<
  "IF", " ", "EXISTS", " ", "(", "SELECT", " ", "1", " ", "FROM", " ", "sys", ".",
  "foo", ")", " ", "BEGIN", " ", "delete", " ", "from", " ", "t", " ", "END" >>

\* an existence guard whose condition holds a function call:
\* IF EXISTS (SELECT 1 FROM t WHERE a = OBJECT_ID('x')) BEGIN delete from t END
if_exists_nested == <<
  "IF", " ", "EXISTS", " ", "(", "SELECT", " ", "1", " ", "FROM", " ", "t", " ",
  "WHERE", " ", "a", " ", "=", " ", "OBJECT_ID", "(", "'", "x", "'", ")", ")", " ",
  "BEGIN", " ", "delete", " ", "from", " ", "t", " ", "END" >>

\* a sys.foreign_keys guard before a statement with a timestamp default:
\* if exists (select * from sys.foreign_keys where object_id = object_id('fk'))\nalter table t add b int default  current_timestamp;
fk_guard == <<
  "if", " ", "exists", " ", "(", "select", " ", "*", " ", "from", " ", "sys", ".",
  "foreign_keys", " ", "where", " ", "object_id", " ", "=", " ", "object_id", "(", "'",
  "fk", "'", ")", ")", "\n", "alter", " ", "table", " ", "t", " ", "add", " ", "b",
  " ", "int", " ", "default", " ", " ", "current_timestamp", ";" >>

\* an anonymous block written DO $$, then an identity column:
\* DO $$ begin end $$; create table t (a int identity(1,1))
do_block_upper == <<
  "DO", " ", "$$", " ", "begin", " ", "end", " ", "$$", ";", " ", "create", " ",
  "table", " ", "t", " ", "(", "a", " ", "int", " ", "identity", "(", "1", ",", "1",
  ")", ")" >>

\* the same script with the block written do $$:
\* do $$ begin end $$; create table t (a int identity(1,1))
do_block_lower == <<
  "do", " ", "$$", " ", "begin", " ", "end", " ", "$$", ";", " ", "create", " ",
  "table", " ", "t", " ", "(", "a", " ", "int", " ", "identity", "(", "1", ",", "1",
  ")", ")" >>

\* an identity column in a script without a block:
\* create table t (a int identity(1,1))
identity_top == <<
  "create", " ", "table", " ", "t", " ", "(", "a", " ", "int", " ", "identity", "(",
  "1", ",", "1", ")", ")" >>

\* a script on which no rewrite rule matches:
\* select 1
select_one == <<
  "select", " ", "1" >>

\* a schema prefix in upper case:
\* select * from DBO.T
dbo_upper == <<
  "select", " ", "*", " ", "from", " ", "DBO", ".", "T" >>

\* a schema prefix in lower case:
\* select * from dbo.t
dbo_lower == <<
  "select", " ", "*", " ", "from", " ", "dbo", ".", "t" >>

\* a column of a type that maps to itself in upper case:
\* create table t (a bigint)
bigint_column == <<
  "create", " ", "table", " ", "t", " ", "(", "a", " ", "bigint", ")" >>

\* the unbounded type forms and a type name inside an identifier:
\* create table t (a varbinary(max), b nvarchar(max), int_value int)
max_types == <<
  "create", " ", "table", " ", "t", " ", "(", "a", " ", "varbinary", "(", "max", ")",
  ",", " ", "b", " ", "nvarchar", "(", "max", ")", ",", " ", "int_value", " ", "int",
  ")" >>

\* a column of type datetime and a type name inside an identifier:
\* create table t (a datetime, int_value int)
datetime_column == <<
  "create", " ", "table", " ", "t", " ", "(", "a", " ", "datetime", ",", " ",
  "int_value", " ", "int", ")" >>

\* two batches separated by GO:
\* select 1\nGO\nselect 2
go_batches == <<
  "select", " ", "1", "\n", "GO", "\n", "select", " ", "2" >>

\* a bracket identifier, a collation and a timestamp default:
\* create table [t] (a varchar(10) collate Latin1_General_CI_AS default  CURRENT_TIMESTAMP)
brackets_collate == <<
  "create", " ", "table", " ", "[", "t", "]", " ", "(", "a", " ", "varchar", "(", "10",
  ")", " ", "collate", " ", "Latin1_General_CI_AS", " ", "default", " ", " ",
  "CURRENT_TIMESTAMP", ")" >>

\* bracket identifiers whose inner text holds words a later rule rewrites:
\* select [Date], [Check Time] from t
bracket_names == <<
  "select", " ", "[", "Date", "]", ",", " ", "[", "Check", " ", "Time", "]", " ",
  "from", " ", "t" >>

\* a schema prefix and an identifier in bracket delimiters:
\* select * from [dbo].[T]
dbo_brackets == <<
  "select", " ", "*", " ", "from", " ", "[", "dbo", "]", ".", "[", "T", "]" >>

\* three semicolons in a row:
\* select 1;;;select 2
three_semicolons == <<
  "select", " ", "1", ";", ";", ";", "select", " ", "2" >>

\* a line that holds only a semicolon, between two blank lines
semicolon_between_blank_lines == <<
  "select", " ", "1", "\n", "\n", ";", "\n", "\n", "select", " ", "2" >>

\* the script of test_big_quartz.py with one statement of each kind:
\* declare @DropDb boolean = 1;
\* -- c
\* if @DropDb = 1
\* begin
\* drop index if exists U;
\* ALTER TABLE t DROP CONSTRAINT IF EXISTS fk;
\* drop table T;
\* end
\*
\* CREATE TABLE T (
\*     A varchar(120) not null
\* );
big_script == <<
  "declare", " ", "@", "DropDb", " ", "boolean", " ", "=", " ", "1", ";", "\n",
  "--", " ", "c", "\n",
  "if", " ", "@", "DropDb", " ", "=", " ", "1", "\n",
  "begin", "\n",
  "drop", " ", "index", " ", "if", " ", "exists", " ", "U", ";", "\n",
  "ALTER", " ", "TABLE", " ", "t", " ", "DROP", " ", "CONSTRAINT", " ", "IF", " ", "EXISTS",
  " ", "fk", ";", "\n",
  "drop", " ", "table", " ", "T", ";", "\n",
  "end", "\n", "\n",
  "CREATE", " ", "TABLE", " ", "T", " ", "(", "\n",
  " ", " ", " ", " ", "A", " ", "varchar", "(", "120", ")", " ", "not", " ", "null", "\n",
  ")", ";" >>

\* an existence guard that is wrapped into a block, then a statement at
\* the top level:
\* IF EXISTS (SELECT 1) BEGIN drop table T; END\ndrop table U;
if_exists_then_drop == <<
  "IF", " ", "EXISTS", " ", "(", "SELECT", " ", "1", ")", " ", "BEGIN", " ",
  "drop", " ", "table", " ", "T", ";", " ", "END", "\n",
  "drop", " ", "table", " ", "U", ";" >>

\* The source directories: the contents of their *.sql files, in the sorted
\* order of the file names in which convert_flyway_scripts reads them
Directories == {
  <<declare_if_ddl, declare_if_other_variable, declare_if_insert>>,
  <<if_exists_simple, if_exists_nested, fk_guard>>,
  <<do_block_upper, do_block_lower, identity_top>>,
  <<select_one, dbo_upper, dbo_lower>>,
  <<bigint_column, max_types, datetime_column>>,
  <<go_batches, brackets_collate>>,
  <<bracket_names, dbo_brackets>>,
  <<three_semicolons, semicolon_between_blank_lines, big_script>>,
  <<if_exists_then_drop>> }

\* How many times a converted script is converted again after the batch
MaxReruns == 1

(***************************************************************************)
(* The file system convert_flyway_scripts works on.  A file name is the     *)
(* sequence of its characters.  A file of the source directory has a name,  *)
(* a content and the place where handling it raises: "none", "read"         *)
(* (open or f.read() of the source file raises), "open" (open of the target *)
(* file raises) or "write" (f.write raises after open created the file).    *)
(* An item of the target directory is a file, a directory or a dangling     *)
(* symbolic link, for which is_file() and is_dir() are both False.          *)
(***************************************************************************)
\* ord(c) for the characters of the file names
Ord ==
  ("." :> 46) @@ ("0" :> 48) @@ ("1" :> 49) @@ ("2" :> 50) @@ ("3" :> 51) @@ ("V" :> 86)
  @@ ("_" :> 95) @@ ("d" :> 100) @@ ("l" :> 108) @@ ("o" :> 111) @@ ("q" :> 113)
  @@ ("s" :> 115) @@ ("t" :> 116) @@ ("x" :> 120)

\* a < b for two names: the comparison of strings by code points
NameLess(a, b) ==
  \E i \in 1..Len(b) :
    /\ \A j \in 1..(i - 1) : j <= Len(a) /\ a[j] = b[j]
    /\ \/ i = Len(a) + 1
       \/ i <= Len(a) /\ Ord[a[i]] < Ord[b[i]]

\* source_dir.glob("*.sql"): the files whose name ends in .sql
glob(files) ==
  {f \in files : /\ Len(f.name) >= 4
                 /\ SubSeq(f.name, Len(f.name) - 3, Len(f.name)) = <<".", "s", "q", "l">>}

\* sorted(files): the files in ascending order of their names
sorted(files) ==
  [i \in 1..Cardinality(files) |->
     CHOOSE f \in files : Cardinality({g \in files : NameLess(g.name, f.name)}) = i - 1]

V1_sql == <<"V", "1", ".", "s", "q", "l">>

V2_sql == <<"V", "2", ".", "s", "q", "l">>

V10_sql == <<"V", "1", "0", ".", "s", "q", "l">>

V3_txt == <<"V", "3", ".", "t", "x", "t">>

\* The names of the files of a directory of Directories, in sorted order
SqlNames == <<V1_sql, V10_sql, V2_sql>>

File(name, content, fault) == [name |-> name, content |-> content, fault |-> fault]

\* The source directories: one that does not exist, an empty one, the
\* directories of Directories, and two with files that cannot be handled
\* and a file that is no .sql file
SourceDirectories ==
  {[exists |-> TRUE, files |-> {File(SqlNames[i], d[i], "none") : i \in DOMAIN d}] :
     d \in Directories}
  \cup
  {[exists |-> FALSE, files |-> {}],
   [exists |-> TRUE, files |-> {}],
   [exists |-> TRUE,
    files |-> {File(V2_sql, dbo_lower, "write"), File(V1_sql, select_one, "read"),
               File(V10_sql, dbo_upper, "none"), File(V3_txt, go_batches, "none")}],
   [exists |-> TRUE,
    files |-> {File(V2_sql, select_one, "none"), File(V3_txt, dbo_upper, "none"),
               File(V1_sql, dbo_lower, "open")}]}

Item(kind, name, content) == [kind |-> kind, name |-> name, content |-> content]

\* The target directories before the call: one that does not exist, one
\* with an output of an earlier run, a file of another origin and a
\* subdirectory, and one that holds a dangling symbolic link as well
TargetDirectories ==
  {[exists |-> FALSE, items |-> {}],
   [exists |-> TRUE,
    items |-> {Item("file", V1_sql, select_one), Item("file", V3_txt, select_one),
               Item("dir", <<"o", "l", "d">>, <<>>)}],
   [exists |-> TRUE,
    items |-> {Item("file", V2_sql, select_one), Item("dir", <<"o", "l", "d">>, <<>>),
               Item("link", <<"l", "o", "s", "t">>, <<>>)}]}

(***************************************************************************)
(* The state machine: one FlywayConverter instance, the batch driver that   *)
(* converts the files of a source directory with it, and a caller that      *)
(* converts written outputs again.  Python lists are objects of a heap:     *)
(* heap[id] is the content of list id, and a variable that holds a list     *)
(* holds its id.                                                            *)
(***************************************************************************)
VARIABLES
  type_mappings_config,  \* the state of type_mappings_config.json
  TYPE_MAPPING,          \* self.TYPE_MAPPING, in dict order
  skip_collations,       \* self.skip_collations
  collations,            \* self.collations, in dict order
  source_dir,            \* the directory source_dir: whether it exists, its files
  target_dir,            \* the directory target_dir: whether it exists, its items
  results,               \* the results dict of convert_flyway_scripts
  batch_pc,              \* convert_flyway_scripts: "entry", "loop", "done" or "error"
  sql_file,              \* how many files the loop of convert_flyway_scripts has handled
  log_callback,          \* history: the calls of log_callback
  pc,                    \* the rule convert_file calls next; "idle" between calls
  caller,                \* who called convert_file: "batch" or "again"
  sql_content,           \* the argument of the running convert_file call
  result,                \* the local variable result of convert_file
  heap,                  \* the list objects: heap[id] is the content of list id
  conversion_log,        \* self.conversion_log: the id of a list
  ran,                   \* history: the rule calls of the running convert_file call
  calls,                 \* history: the convert_file calls that returned
  reruns                 \* how many calls converted an output again

VARIABLES
  tables,                \* step 1: the tables of the source database, in order
  table_no,              \* step 1: how many tables the loop of main has handled
  column_mapping,        \* step 1: the dict column_mapping of main
  shorten_calls,         \* history: the calls of shorten_column_name
  created,               \* history: the tables created, with their column names
  success_count,         \* step 1: success_count of main
  failed_tables,         \* step 1: failed_tables of main
  step1_pc,              \* step 1: "loop", "exit0", "exit1", or "aborted" by an exception
  migrate_data,          \* step 1: os.getenv('MIGRATE_DATA', 'true').lower() == 'true'
  mapping_file,          \* the content of logs/column_mapping.json; <<>> when absent
  inserts                \* history: the data copies, with their INSERT statement

step1 == <<tables, table_no, column_mapping, shorten_calls, created, success_count,
           failed_tables, step1_pc, migrate_data, mapping_file, inserts>>

\* step 1 before it is started
Step1NotStarted ==
  /\ tables = <<>>
  /\ table_no = 0
  /\ column_mapping = <<>>
  /\ shorten_calls = <<>>
  /\ created = <<>>
  /\ success_count = 0
  /\ failed_tables = <<>>
  /\ step1_pc = "loop"
  /\ migrate_data = TRUE
  /\ mapping_file = <<>>
  /\ inserts = <<>>

VARIABLES
  store_fault,           \* type mapping store: where writing the file raises
  store_calls            \* history: the calls of the store's functions

store == <<store_fault, store_calls>>

\* the type mapping store before any of its functions is called
StoreNotStarted ==
  /\ store_fault = "none"
  /\ store_calls = <<>>

VARIABLES
  available_collations,  \* step 4: the collations the destination has
  columns,               \* step 4: the collations of the source columns, in order
  column,                \* step 4: how many columns the loop of main has handled
  counts,                \* step 4: success_count, failed_count, skipped_count
  statements             \* history: the ALTER statements step 4 executed

step4 == <<available_collations, columns, column, counts, statements>>

\* step 4 before it is started
Step4NotStarted ==
  /\ available_collations = {}
  /\ columns = <<>>
  /\ column = 0
  /\ counts = [success_count |-> 0, failed_count |-> 0, skipped_count |-> 0]
  /\ statements = <<>>

\* the state of the converter and of its batch driver
flyway == <<type_mappings_config, TYPE_MAPPING, skip_collations, collations, source_dir,
            target_dir, results, batch_pc, sql_file, log_callback, pc, caller, sql_content,
            result, heap, conversion_log, ran, calls, reruns>>

VARIABLES
  dotenv,                \* run_all: os.path.exists('.env')
  outcomes,              \* run_all: how the main() of each step module ends
  steps_started,         \* history: the step numbers run_script was called with
  failed_steps,          \* run_all: failed_steps of main
  runall_pc              \* run_all: "entry", "loop", "summary", "exit0" or "exit1"

runall == <<dotenv, outcomes, steps_started, failed_steps, runall_pc>>

\* run_all before it is started
RunAllNotStarted ==
  /\ dotenv = TRUE
  /\ outcomes = <<>>
  /\ steps_started = <<>>
  /\ failed_steps = <<>>
  /\ runall_pc = "entry"

VARIABLES
  threads,               \* two callers of convert_file: their instance and locals
  instances,             \* per FlywayConverter instance: self.conversion_log, a list id
  lists                  \* the list objects of the callers' converters

concurrent == <<threads, instances, lists>>

\* no concurrent caller exists
ThreadsNotStarted ==
  /\ threads = <<>>
  /\ instances = <<>>
  /\ lists = <<>>

VARIABLES
  do_lines,              \* STEP 4 of convert_do_block_content: lines
  do_line,               \* STEP 4: how many lines the loop has handled
  do_in_if_block,        \* STEP 4: in_if_block
  do_if_depth,           \* STEP 4: if_depth
  do_new_lines,          \* STEP 4: new_lines
  do_rewritten           \* history: the numbers of the lines rewritten to END IF;

endif == <<do_lines, do_line, do_in_if_block, do_if_depth, do_new_lines, do_rewritten>>

\* no STEP 4 loop is running
EndIfNotStarted ==
  /\ do_lines = <<>>
  /\ do_line = 0
  /\ do_in_if_block = FALSE
  /\ do_if_depth = 0
  /\ do_new_lines = <<>>
  /\ do_rewritten = {}

\* run_all, the concurrent callers of convert_file and the STEP 4 loop
drivers == <<runall, concurrent, endif>>

DriversNotStarted ==
  /\ RunAllNotStarted
  /\ ThreadsNotStarted
  /\ EndIfNotStarted

\* the state of the migration steps and of the type mapping store's
\* callers, which the converter never touches
migration == <<step4, store, step1, drivers>>

vars == <<flyway, migration>>

instance == <<type_mappings_config, TYPE_MAPPING, skip_collations, collations>>

batch == <<source_dir, target_dir, results, batch_pc, sql_file, log_callback>>

\* The call convert_flyway_scripts(source_dir, target_dir, log_callback,
\* skip_collations) at its entry: no converter exists yet
Init ==
  /\ type_mappings_config \in TypeConfigFiles
  /\ TYPE_MAPPING = <<>>
  /\ skip_collations \in BOOLEAN
  /\ collations = <<>>
  /\ source_dir \in SourceDirectories
  /\ target_dir \in TargetDirectories
  /\ results = [converted |-> 0, failed |-> 0, files |-> <<>>, total_changes |-> 0]
  /\ batch_pc = "entry"
  /\ sql_file = 0
  /\ log_callback = <<>>
  /\ pc = "idle"
  /\ caller = "batch"
  /\ sql_content = <<>>
  /\ result = <<>>
  /\ heap = <<>>
  /\ conversion_log = 0
  /\ ran = <<>>
  /\ calls = <<>>
  /\ reruns = 0
  /\ Step4NotStarted
  /\ StoreNotStarted
  /\ Step1NotStarted
  /\ DriversNotStarted

\* convert_flyway_scripts with the target directory made and emptied before
\* the source directory is looked at
SourceDirMissingAfterClear ==
  /\ batch_pc = "entry"
  /\ ~source_dir.exists
  /\ target_dir' = [exists |-> TRUE,
                    items |-> {item \in target_dir.items : item.kind \notin {"file", "dir"}}]
  /\ batch_pc' = "error"
  /\ UNCHANGED <<migration, instance, source_dir, results, sql_file, log_callback,
                 pc, caller, sql_content, result, heap, conversion_log, ran, calls, reruns>>

\* if not source_dir.exists(): return {"error": ...}
SourceDirMissing ==
  /\ batch_pc = "entry"
  /\ ~source_dir.exists
  /\ batch_pc' = "error"
  /\ UNCHANGED <<migration, instance, source_dir, target_dir, results, sql_file, log_callback,
                 pc, caller, sql_content, result, heap, conversion_log, ran, calls, reruns>>

\* target_dir.mkdir(parents=True, exist_ok=True), the loop that unlinks the
\* files and removes the directories of target_dir, FlywayConverter(...)
\* with its __init__, and results = {...}
ClearTargetDir ==
  /\ batch_pc = "entry"
  /\ source_dir.exists
  /\ target_dir' = [exists |-> TRUE,
                    items |-> {item \in target_dir.items : item.kind \notin {"file", "dir"}}]
  /\ heap' = << <<>> >>
  /\ conversion_log' = 1
  /\ TYPE_MAPPING' = load_type_mappings_with_fallback(type_mappings_config)
  /\ collations' = IF ~skip_collations THEN load_collations_with_fallback ELSE <<>>
  /\ results' = [converted |-> 0, failed |-> 0, files |-> <<>>, total_changes |-> 0]
  /\ batch_pc' = "loop"
  /\ UNCHANGED <<migration, type_mappings_config, skip_collations, source_dir, sql_file,
                 log_callback, pc, caller, sql_content, result, ran, calls, reruns>>

\* sorted(source_dir.glob("*.sql")): the files the loop handles, in order
sql_files == sorted(glob(source_dir.files))

\* log_callback(f"{sql_file.name} konvertiert ({len(changes)} Änderungen)") and
\* log_callback(f"{sql_file.name} FEHLER: {str(e)}")
Message(name, status, changes) == [name |-> name, status |-> status, changes |-> changes]

\* an except branch that gives the loop up: no later file is handled
FailedAndStop ==
  /\ results' = [results EXCEPT !.failed = @ + 1]
  /\ log_callback' = Append(log_callback, Message(sql_files[sql_file + 1].name, "FEHLER", 0))
  /\ sql_file' = Len(sql_files)

\* except Exception as e: results["failed"] += 1; log_callback(...); the
\* loop goes on with the next file
Failed ==
  /\ results' = [results EXCEPT !.failed = @ + 1]
  /\ log_callback' = Append(log_callback, Message(sql_files[sql_file + 1].name, "FEHLER", 0))
  /\ sql_file' = sql_file + 1

\* open(sql_file, 'r', encoding='utf-8') or f.read() raises
ReadFails ==
  /\ batch_pc = "loop"
  /\ pc = "idle"
  /\ sql_file < Len(sql_files)
  /\ sql_files[sql_file + 1].fault = "read"
  /\ Failed
  /\ UNCHANGED <<migration, instance, source_dir, target_dir, batch_pc, pc, caller,
                 sql_content, result, heap, conversion_log, ran, calls, reruns>>

\* self.conversion_log.clear(): the list object is kept and emptied
ClearLog(h, log) == [heap |-> [h EXCEPT ![log] = <<>>], conversion_log |-> log]

\* self.conversion_log = []: a new list object is bound to the attribute
ResetLog(h, log) == [heap |-> Append(h, <<>>), conversion_log |-> Len(h) + 1]

\* The entry of convert_file: the log is reset and result = sql_content
convert_file(content, who) ==
  /\ pc = "idle"
  /\ LET fresh == ResetLog(heap, conversion_log)
     IN /\ heap' = fresh.heap
        /\ conversion_log' = fresh.conversion_log
  /\ sql_content' = content
  /\ result' = content
  /\ ran' = <<>>
  /\ caller' = who
  /\ pc' = "go"

\* The loop of convert_flyway_scripts reads the next file and calls convert_file
ConvertNextFile ==
  /\ batch_pc = "loop"
  /\ sql_file < Len(sql_files)
  /\ sql_files[sql_file + 1].fault # "read"
  /\ convert_file(sql_files[sql_file + 1].content, "batch")
  /\ UNCHANGED <<migration, instance, batch, calls, reruns>>

\* return results: the loop has handled every file
ReturnResults ==
  /\ batch_pc = "loop"
  /\ pc = "idle"
  /\ sql_file = Len(sql_files)
  /\ batch_pc' = "done"
  /\ UNCHANGED <<migration, instance, source_dir, target_dir, results, sql_file, log_callback,
                 pc, caller, sql_content, result, heap, conversion_log, ran, calls, reruns>>

\* After the batch, a caller converts one of the outputs the result names
\* again
ConvertAgain ==
  /\ batch_pc = "done"
  /\ reruns < MaxReruns
  /\ \E f \in DOMAIN results.files :
       \E item \in target_dir.items :
         /\ item.name = results.files[f].name
         /\ convert_file(item.content, "again")
  /\ reruns' = reruns + 1
  /\ UNCHANGED <<migration, instance, batch, calls>>

\* result = self.<rule>(result): the rule rewrites the text and appends its
\* entries to the list self.conversion_log is bound to
Step(from, to, rule, res) ==
  /\ pc = from
  /\ pc' = to
  /\ result' = res.text
  /\ heap' = [heap EXCEPT ![conversion_log] = @ \o res.log]
  /\ ran' = Append(ran, [rule |-> rule, before |-> result, after |-> res.text,
                         log |-> res.log])
  /\ UNCHANGED <<migration, instance, batch, caller, sql_content, conversion_log, calls, reruns>>

ConvertGoStatements ==
  Step("go", "data_types", "go", _convert_go_statements(result))

ConvertDataTypes ==
  /\ RaisingPairs(TYPE_MAPPING) = {}
  /\ Step("data_types", "collations", "data_types", _convert_data_types(result, TYPE_MAPPING))

\* re.sub raises in _convert_data_types: convert_file does not return, the
\* loop of convert_flyway_scripts catches the exception
DataTypesRaises ==
  /\ pc = "data_types"
  /\ caller = "batch"
  /\ RaisingPairs(TYPE_MAPPING) # {}
  /\ heap' = [heap EXCEPT ![conversion_log] = @ \o DataTypesUntilRaise(result, TYPE_MAPPING).log]
  /\ pc' = "idle"
  /\ Failed
  /\ UNCHANGED <<migration, instance, source_dir, target_dir, batch_pc, caller, sql_content,
                 result, conversion_log, ran, calls, reruns>>

\* if not self.skip_collations and self.collations
ConvertCollations ==
  /\ ~skip_collations /\ collations # <<>>
  /\ Step("collations", "dbo", "collations", _convert_collations(result, collations))

SkipCollations ==
  /\ ~(~skip_collations /\ collations # <<>>)
  /\ pc = "collations"
  /\ pc' = "dbo"
  /\ UNCHANGED <<migration, instance, batch, caller, sql_content, result, heap, conversion_log, ran,
                 calls, reruns>>

RemoveDboPrefix ==
  Step("dbo", "brackets", "dbo", _remove_dbo_prefix(result))

ConvertBracketIdentifiers ==
  Step("brackets", "branch", "brackets", _convert_bracket_identifiers(result))

\* has_do_blocks = 'DO $$' in result
has_do_blocks == Contains(result, <<"DO", " ", "$$">>)

ConvertInsideDoBlocks ==
  /\ has_do_blocks
  /\ Step("branch", "procedures", "inside_do", _convert_inside_do_blocks(result))

WrapIfExistsInDoBlocks ==
  /\ ~has_do_blocks
  /\ Step("branch", "identity", "wrap", _wrap_if_exists_in_do_blocks(result))

ConvertIdentity ==
  Step("identity", "procedures", "identity", _convert_identity(result))

ConvertProceduresToFunctions ==
  Step("procedures", "transactions", "procedures", _convert_procedures_to_functions(result))

ConvertTransactions ==
  Step("transactions", "extended_properties", "transactions", _convert_transactions(result))

ConvertExtendedProperties ==
  Step("extended_properties", "parent_object_id", "extended_properties",
       _convert_extended_properties(result))

RemoveParentObjectId ==
  Step("parent_object_id", "drop_index", "parent_object_id", _remove_parent_object_id(result))

ConvertDropIndex ==
  Step("drop_index", "drop_constraint", "drop_index", _convert_drop_index(result))

ConvertDropConstraint ==
  Step("drop_constraint", "improve_drop", "drop_constraint", _convert_drop_constraint(result))

ImproveDropStatements ==
  Step("improve_drop", "object_id_checks", "improve_drop", _improve_drop_statements(result))

ConvertObjectIdChecks ==
  Step("object_id_checks", "timestamp_defaults", "object_id_checks",
       _convert_object_id_checks(result))

ConvertTimestampDefaults ==
  Step("timestamp_defaults", "if_exists_statements", "timestamp_defaults",
       _convert_timestamp_defaults(result))

ConvertIfExistsStatements ==
  Step("if_exists_statements", "lowercase", "if_exists_statements",
       _convert_if_exists_statements(result))

LowercaseKeywordsAndIdentifiers ==
  Step("lowercase", "format", "lowercase", _lowercase_keywords_and_identifiers(result))

\* convert_file without its last rule: the formatted text is returned as it is
FormatSqlOutputAndReturn ==
  Step("format", "return", "format", _format_sql_output(result))

FormatSqlOutput ==
  Step("format", "cleanup", "format", _format_sql_output(result))

CleanupEmptyLinesAndSemicolons ==
  Step("cleanup", "return", "cleanup", _cleanup_empty_lines_and_semicolons(result))

\* return result, self.conversion_log: the caller gets the list object itself
Returned ==
  [sql_content |-> sql_content, again |-> caller = "again", result |-> result,
   log |-> conversion_log, ran |-> ran]

\* open(target_file, 'w'): the file target_dir / name, new or truncated,
\* with the content written to it
Written(name, content) ==
  [target_dir EXCEPT !.items = {item \in @ : item.name # name}
                                \cup {Item("file", name, content)}]

\* convert_file returns to the loop of convert_flyway_scripts, which writes
\* the target file, records the file in results and calls log_callback
ReturnToBatch ==
  /\ pc = "return"
  /\ caller = "batch"
  /\ sql_files[sql_file + 1].fault = "none"
  /\ pc' = "idle"
  /\ target_dir' = Written(sql_files[sql_file + 1].name, result)
  /\ results' = [converted |-> results.converted + 1,
                 failed |-> results.failed,
                 files |-> Append(results.files,
                                  [name |-> sql_files[sql_file + 1].name,
                                   changes |-> Len(heap[conversion_log]),
                                   details |-> conversion_log]),
                 total_changes |-> results.total_changes + Len(heap[conversion_log])]
  /\ log_callback' = Append(log_callback,
                            Message(sql_files[sql_file + 1].name, "konvertiert",
                                    Len(heap[conversion_log])))
  /\ sql_file' = sql_file + 1
  /\ calls' = Append(calls, Returned)
  /\ UNCHANGED <<migration, instance, source_dir, batch_pc, caller, sql_content, result, heap,
                 conversion_log, ran, reruns>>

\* convert_file returns and open(target_file, 'w') raises: no file is made
OpenTargetFails ==
  /\ pc = "return"
  /\ caller = "batch"
  /\ sql_files[sql_file + 1].fault = "open"
  /\ pc' = "idle"
  /\ Failed
  /\ calls' = Append(calls, Returned)
  /\ UNCHANGED <<migration, instance, source_dir, target_dir, batch_pc, caller, sql_content,
                 result, heap, conversion_log, ran, reruns>>

\* convert_file returns, open(target_file, 'w') makes the file and f.write
\* raises: the file stays, with nothing written to it
WriteTargetFails ==
  /\ pc = "return"
  /\ caller = "batch"
  /\ sql_files[sql_file + 1].fault = "write"
  /\ pc' = "idle"
  /\ target_dir' = Written(sql_files[sql_file + 1].name, <<>>)
  /\ Failed
  /\ calls' = Append(calls, Returned)
  /\ UNCHANGED <<migration, instance, source_dir, batch_pc, caller, sql_content, result, heap,
                 conversion_log, ran, reruns>>

\* convert_file returns to the caller that converted an output again
ReturnToCaller ==
  /\ pc = "return"
  /\ caller = "again"
  /\ pc' = "idle"
  /\ calls' = Append(calls, Returned)
  /\ UNCHANGED <<migration, instance, batch, caller, sql_content, result, heap, conversion_log, ran,
                 reruns>>

Next ==
  \/ SourceDirMissing
  \/ ClearTargetDir
  \/ ReadFails
  \/ ConvertNextFile
  \/ ReturnResults
  \/ ConvertAgain
  \/ ConvertGoStatements
  \/ ConvertDataTypes
  \/ DataTypesRaises
  \/ ConvertCollations
  \/ SkipCollations
  \/ RemoveDboPrefix
  \/ ConvertBracketIdentifiers
  \/ ConvertInsideDoBlocks
  \/ WrapIfExistsInDoBlocks
  \/ ConvertIdentity
  \/ ConvertProceduresToFunctions
  \/ ConvertTransactions
  \/ ConvertExtendedProperties
  \/ RemoveParentObjectId
  \/ ConvertDropIndex
  \/ ConvertDropConstraint
  \/ ImproveDropStatements
  \/ ConvertObjectIdChecks
  \/ ConvertTimestampDefaults
  \/ ConvertIfExistsStatements
  \/ LowercaseKeywordsAndIdentifiers
  \/ FormatSqlOutput
  \/ CleanupEmptyLinesAndSemicolons
  \/ ReturnToBatch
  \/ OpenTargetFails
  \/ WriteTargetFails
  \/ ReturnToCaller

Spec == Init /\ [][Next]_vars

(***************************************************************************)
(* Step 4 (src/step4_migrate_collations.py): main resolves the collation    *)
(* of every source column against the collations the destination has and    *)
(* alters the column, or skips it when the resolution is default.           *)
(***************************************************************************)
\* The converter and its batch driver while a migration step runs
BatchNotStarted ==
  /\ TYPE_MAPPING = <<>>
  /\ skip_collations = TRUE
  /\ collations = <<>>
  /\ source_dir = [exists |-> FALSE, files |-> {}]
  /\ target_dir = [exists |-> FALSE, items |-> {}]
  /\ results = [converted |-> 0, failed |-> 0, files |-> <<>>, total_changes |-> 0]
  /\ batch_pc = "entry"
  /\ sql_file = 0
  /\ log_callback = <<>>
  /\ pc = "idle"
  /\ caller = "batch"
  /\ sql_content = <<>>
  /\ result = <<>>
  /\ heap = <<>>
  /\ conversion_log = 0
  /\ ran = <<>>
  /\ calls = <<>>
  /\ reruns = 0

FlywayNotStarted ==
  /\ type_mappings_config = "absent"
  /\ BatchNotStarted

\* step4_migrate_collations.COLLATION_MAPPING: every value is a list, so
\* map_collation never takes its branch for a single value
COLLATION_MAPPING ==
     ("SQL_Latin1_General_CP1_CI_AS" :>
        <<"de-DE-x-icu", "de_DE.utf8", "de_DE", "en-US-x-icu", "en_US.utf8", "C.UTF-8",
          "default">>)
  @@ ("Latin1_General_CI_AS" :>
        <<"de-DE-x-icu", "de_DE.utf8", "de_DE", "en-US-x-icu", "en_US.utf8", "C.UTF-8",
          "default">>)
  @@ ("SQL_Latin1_General_CP1_CS_AS" :> <<"C">>)
  @@ ("Latin1_General_CS_AS" :> <<"C">>)
  @@ ("German_PhoneBook_CI_AS" :> <<"de-DE-x-icu", "de_DE.utf8", "de_DE", "default">>)
  @@ ("SQL_Latin1_General_CP850_CI_AS" :>
        <<"de-DE-x-icu", "de_DE.utf8", "de_DE", "en-US-x-icu", "en_US.utf8", "default">>)

\* the candidates map_collation tries for a collation that is no key of
\* COLLATION_MAPPING and has 'CI' in its name
CI_CANDIDATES ==
  <<"de-DE-x-icu", "de_DE.utf8", "de_DE", "en-US-x-icu", "en_US.utf8", "C.UTF-8">>

\* The collations of the source columns of the model: keys of
\* COLLATION_MAPPING and two collations that are no key
SourceCollations ==
  {"Latin1_General_CI_AS", "Latin1_General_CS_AS", "German_PhoneBook_CI_AS",
   "Cyrillic_General_CI_AS", "Latin1_General_BIN"}

\* 'CI' in mssql_collation, for the source collations of the model
ContainsCI(mssql_collation) ==
  mssql_collation \in {"Latin1_General_CI_AS", "German_PhoneBook_CI_AS",
                       "Cyrillic_General_CI_AS"}

\* The collations a destination of the model can have (pg_collation)
DestinationCollations ==
  {"de-DE-x-icu", "de_DE.utf8", "de_DE", "en-US-x-icu", "C.UTF-8", "C"}

\* How many source columns have a collation
MaxColumns == 2

RECURSIVE FirstCandidate(_, _, _)
\* `for candidate in candidates: if candidate == 'default' or candidate in
\* available_collations: return candidate`, then `return 'default'`, from
\* the k-th candidate on
FirstCandidate(candidates, available, k) ==
  IF k > Len(candidates) THEN "default"
  ELSE IF candidates[k] = "default" \/ candidates[k] \in available THEN candidates[k]
  ELSE FirstCandidate(candidates, available, k + 1)

\* map_collation that takes the first candidate of the list as it is
map_collation_first_listed(mssql_collation, available) ==
  IF mssql_collation \in DOMAIN COLLATION_MAPPING
  THEN COLLATION_MAPPING[mssql_collation][1]
  ELSE IF ContainsCI(mssql_collation) THEN CI_CANDIDATES[1]
  ELSE "C"

\* step4_migrate_collations.map_collation; no candidate of CI_CANDIDATES is
\* 'default', so its loop is the loop of FirstCandidate
map_collation(mssql_collation, available) ==
  IF mssql_collation \in DOMAIN COLLATION_MAPPING
  THEN FirstCandidate(COLLATION_MAPPING[mssql_collation], available, 1)
  ELSE IF ContainsCI(mssql_collation) THEN FirstCandidate(CI_CANDIDATES, available, 1)
  ELSE IF "C" \in available THEN "C" ELSE "default"

\* main up to its loop over the columns: the destination's collations and
\* the source columns are read, the counters are 0
InitStep4 ==
  /\ FlywayNotStarted
  /\ DriversNotStarted
  /\ StoreNotStarted
  /\ Step1NotStarted
  /\ available_collations \in SUBSET DestinationCollations
  /\ columns \in UNION {[1..n -> SourceCollations] : n \in 0..MaxColumns}
  /\ column = 0
  /\ counts = [success_count |-> 0, failed_count |-> 0, skipped_count |-> 0]
  /\ statements = <<>>

\* pg_collation = map_collation(col['collation'], available_collations) for
\* the column the loop handles next
pg_collation == map_collation(columns[column + 1], available_collations)

\* if pg_collation == 'default': skipped_count += 1; continue
SkipColumn ==
  /\ column < Len(columns)
  /\ pg_collation = "default"
  /\ counts' = [counts EXCEPT !.skipped_count = @ + 1]
  /\ column' = column + 1
  /\ UNCHANGED <<flyway, drivers, store, step1, available_collations, columns, statements>>

\* alter_column_collation executes ALTER TABLE ... COLLATE "<pg_collation>"
\* and commits: success_count += 1
AlterColumn ==
  /\ column < Len(columns)
  /\ pg_collation # "default"
  /\ statements' = Append(statements, [column |-> column + 1, collate |-> pg_collation])
  /\ counts' = [counts EXCEPT !.success_count = @ + 1]
  /\ column' = column + 1
  /\ UNCHANGED <<flyway, drivers, store, step1, available_collations, columns>>

\* alter_column_collation: cursor.execute raises, the statement is rolled
\* back: failed_count += 1
AlterColumnFails ==
  /\ column < Len(columns)
  /\ pg_collation # "default"
  /\ statements' = Append(statements, [column |-> column + 1, collate |-> pg_collation])
  /\ counts' = [counts EXCEPT !.failed_count = @ + 1]
  /\ column' = column + 1
  /\ UNCHANGED <<flyway, drivers, store, step1, available_collations, columns>>

NextStep4 ==
  \/ SkipColumn
  \/ AlterColumn
  \/ AlterColumnFails

SpecStep4 == InitStep4 /\ [][NextStep4]_vars

(***************************************************************************)
(* The type mapping store (src/type_mappings_manager.py): the resource      *)
(* type_mappings_config.json, ensure_type_mappings_config, which writes it  *)
(* when it is missing or does not parse, and the loader.  Every file        *)
(* access of the two functions is inside try/except Exception, so a         *)
(* failing write ends the call without an exception.                        *)
(***************************************************************************)
\* The states of the resource: those of TypeConfigFiles, the file ensure
\* writes ("default"), a file a failed write left without content
\* ("truncated"), a file whose JSON value is no object ("array": []), one
\* without the key "type_mappings" ("no_key": {}) and one whose
\* "type_mappings" is a JSON array ("list")
StoredFiles ==
  TypeConfigFiles \cup {"default", "truncated", "array", "no_key", "list"}

\* Where writing the resource raises: nowhere, in open(config_file, 'w'),
\* or in json.dump after open has made or truncated the file
StoreFaults == {"none", "open", "write"}

\* How many calls of the store's functions a run makes
MaxStoreCalls == 3

\* json.load(f) returns: the file exists and holds a JSON value
Parses(file) == file \notin {"absent", "corrupt", "truncated"}

\* the Python type of what load_type_mappings_with_fallback returns
LoadedType(file) == IF file = "list" THEN "list" ELSE "dict"

\* with open(config_file, 'w') as f: json.dump(config, f, ...) inside
\* try/except: the file after the attempt
WriteDefault(file, fault) ==
  IF fault = "none" THEN "default"
  ELSE IF fault = "open" THEN file
  ELSE "truncated"

\* type_mappings_manager.ensure_type_mappings_config: the file after the call
ensure_type_mappings_config(file, fault) ==
  IF file = "absent" THEN WriteDefault(file, fault)
  ELSE IF ~Parses(file) THEN WriteDefault(file, fault)
  ELSE file

InitStore ==
  /\ type_mappings_config \in StoredFiles
  /\ BatchNotStarted
  /\ DriversNotStarted
  /\ Step4NotStarted
  /\ Step1NotStarted
  /\ store_fault \in StoreFaults
  /\ store_calls = <<>>

\* a caller runs ensure_type_mappings_config()
Ensure ==
  /\ Len(store_calls) < MaxStoreCalls
  /\ type_mappings_config' = ensure_type_mappings_config(type_mappings_config, store_fault)
  /\ store_calls' = Append(store_calls,
                           [op |-> "ensure", before |-> type_mappings_config,
                            after |-> type_mappings_config',
                            type |-> "NoneType", returned |-> <<>>])
  /\ UNCHANGED <<TYPE_MAPPING, skip_collations, collations, batch, pc, caller, sql_content,
                 result, heap, conversion_log, ran, calls, reruns, drivers, step4, step1,
                 store_fault>>

\* a caller runs load_type_mappings_with_fallback()
Load ==
  /\ Len(store_calls) < MaxStoreCalls
  /\ store_calls' = Append(store_calls,
                           [op |-> "load", before |-> type_mappings_config,
                            after |-> type_mappings_config,
                            type |-> LoadedType(type_mappings_config),
                            returned |->
                              load_type_mappings_with_fallback(type_mappings_config)])
  /\ UNCHANGED <<flyway, drivers, step4, step1, store_fault>>

NextStore ==
  \/ Ensure
  \/ Load

SpecStore == InitStore /\ [][NextStore]_vars

(***************************************************************************)
(* Step 1 (src/step1_migrate_data.py): main creates every table of the      *)
(* source database in the destination and collects in column_mapping the    *)
(* column names it had to shorten.  A name is the sequence of its           *)
(* characters.  A table has a schema, a name, the names of its columns and  *)
(* the statement that raises for it: "none", "drop" (DROP TABLE IF EXISTS,  *)
(* outside every try of create_postgres_table), "create" (CREATE TABLE,     *)
(* inside its try) or "copy" (a statement inside the try of                 *)
(* migrate_table_data).                                                     *)
(***************************************************************************)
\* the default of the parameter max_length of shorten_column_name
DefaultMaxLength == 63

\* a variant that shortens a name of exactly max_length characters as well
shorten_from_limit(column_name, max_length) ==
  IF Len(column_name) < max_length THEN column_name
  ELSE IF Len(column_name) > 60
       THEN SubSeq(column_name, 1, 40)
            \o SubSeq(column_name, Len(column_name) - 19, Len(column_name))
       ELSE SubSeq(column_name, 1, max_length)

\* shorten_column_name(column_name, max_length)
shorten_column_name(column_name, max_length) ==
  IF Len(column_name) <= max_length THEN column_name
  ELSE IF Len(column_name) > 60
       THEN SubSeq(column_name, 1, 40)
            \o SubSeq(column_name, Len(column_name) - 19, Len(column_name))
       ELSE SubSeq(column_name, 1, max_length)

\* normalize_name(name): name.replace('-', '_')
normalize_name(name) == [i \in DOMAIN name |-> IF name[i] = "-" THEN "_" ELSE name[i]]

\* f"{schema}.{table}"
table_key(schema, table) == schema \o <<".">> \o table

Digits == <<"0", "1", "2", "3", "4", "5", "6", "7", "8", "9">>

\* A column name of n characters that starts with the given characters and
\* goes on with the last digit of each position
ColumnName(start, n) ==
  [i \in 1..n |-> IF i <= Len(start) THEN start[i] ELSE Digits[(i % 10) + 1]]

dbo == <<"d", "b", "o">>

sales == <<"s", "a", "l", "e", "s">>

orders == <<"o", "r", "d", "e", "r", "s">>

items == <<"i", "t", "e", "m", "s">>

\* The tables of the source databases: their schema, name and column names
\* (of 2, 60, 61, 63, 64 and 70 characters)
SourceTables == {
  [schema |-> dbo, table |-> orders,
   columns |-> <<ColumnName(<<"i", "d">>, 2), ColumnName(<<"a", "-">>, 63),
                 ColumnName(<<"b">>, 64)>>],
  [schema |-> dbo, table |-> items,
   columns |-> <<ColumnName(<<"c", "-">>, 70), ColumnName(<<"d">>, 61)>>],
  [schema |-> sales, table |-> orders,
   columns |-> <<ColumnName(<<"b">>, 64), ColumnName(<<"e">>, 60)>>],
  [schema |-> sales, table |-> items,
   columns |-> <<ColumnName(<<"i", "d">>, 2)>>] }

TableFaults == {"none", "drop", "create", "copy"}

\* How many tables a source database has
MaxTables == 2

\* a dict with the item key: value set
SetItem(dict, key, value) == (key :> value) @@ dict

RECURSIVE MapColumns(_, _, _, _)
\* the loop over the columns of create_postgres_table, from the k-th column
\* on: a name that shorten_column_name changes is recorded under the key
MapColumns(mapping, key, col_names, k) ==
  IF k > Len(col_names) THEN mapping
  ELSE IF shorten_column_name(col_names[k], DefaultMaxLength) # col_names[k]
       THEN MapColumns(
              SetItem(mapping, key,
                      SetItem(mapping[key], col_names[k],
                              shorten_column_name(col_names[k], DefaultMaxLength))),
              key, col_names, k + 1)
       ELSE MapColumns(mapping, key, col_names, k + 1)

\* a variant that starts a new dict for every table
create_postgres_table_fresh(t, mapping) ==
  MapColumns(SetItem(<<>>, table_key(t.schema, t.table), <<>>),
             table_key(t.schema, t.table), t.columns, 1)

\* create_postgres_table(pg_conn, schema, table, columns, column_mapping):
\* the column_mapping it returns
create_postgres_table(t, mapping) ==
  MapColumns(IF table_key(t.schema, t.table) \notin DOMAIN mapping
             THEN SetItem(mapping, table_key(t.schema, t.table), <<>>)
             ELSE mapping,
             table_key(t.schema, t.table), t.columns, 1)

\* the column names of the CREATE TABLE statement: pg_col_name for each column
pg_col_names(t) ==
  [k \in DOMAIN t.columns |->
     normalize_name(shorten_column_name(t.columns[k], DefaultMaxLength))]

\* the calls shorten_column_name(col_name) of create_postgres_table for a table
ShortenCalls(t) ==
  [k \in DOMAIN t.columns |->
     [column_name |-> t.columns[k], max_length |-> DefaultMaxLength,
      result |-> shorten_column_name(t.columns[k], DefaultMaxLength)]]

\* map_schema_name(mssql_schema): dbo becomes public
map_schema_name(mssql_schema) ==
  IF mssql_schema = dbo THEN <<"p", "u", "b", "l", "i", "c">> ELSE mssql_schema

\* dict.get(key, default)
Get(dict, key, default) == IF key \in DOMAIN dict THEN dict[key] ELSE default

\* load_column_mapping(): the content of logs/column_mapping.json, {} when
\* the file is absent
load_column_mapping == mapping_file

\* migrate_table_data up to its INSERT statement: the mapping of the table
\* as load_column_mapping() gives it, the table and the columns inserted into
InsertStatement(t) ==
  [key |-> table_key(t.schema, t.table),
   table_mapping |-> Get(load_column_mapping, table_key(t.schema, t.table), <<>>),
   pg_schema |-> map_schema_name(t.schema),
   table |-> t.table,
   columns |-> [k \in DOMAIN t.columns |->
                  Get(Get(load_column_mapping, table_key(t.schema, t.table), <<>>),
                      t.columns[k], t.columns[k])]]

\* the CREATE TABLE statement of create_postgres_table
CreateStatement(t) ==
  [key |-> table_key(t.schema, t.table),
   pg_schema |-> map_schema_name(t.schema),
   table |-> normalize_name(t.table),
   columns |-> pg_col_names(t)]

RECURSIVE MappingOf(_, _)
\* the column_mapping a run over the given tables collects, from mapping on
MappingOf(ts, mapping) ==
  IF ts = {} THEN mapping
  ELSE LET t == CHOOSE x \in ts : TRUE
       IN MappingOf(ts \ {t}, create_postgres_table(t, mapping))

\* logs/column_mapping.json before the run: absent, or saved by an earlier
\* run over the same tables
MappingFiles == {<<>>, MappingOf(SourceTables, <<>>)}

\* main up to its loop: column_mapping = {}, tables = get_mssql_tables(...)
InitStep1 ==
  /\ FlywayNotStarted
  /\ DriversNotStarted
  /\ StoreNotStarted
  /\ Step4NotStarted
  /\ tables \in UNION {
       {ts \in [1..n -> [t : SourceTables, fault : TableFaults]] :
          \A i, j \in 1..n : i # j => ts[i].t # ts[j].t} : n \in 0..MaxTables}
  /\ table_no = 0
  /\ column_mapping = <<>>
  /\ shorten_calls = <<>>
  /\ created = <<>>
  /\ success_count = 0
  /\ failed_tables = <<>>
  /\ step1_pc = "loop"
  /\ migrate_data \in BOOLEAN
  /\ mapping_file \in MappingFiles
  /\ inserts = <<>>

\* the table the loop of main handles next
next_table == tables[table_no + 1]

\* create_postgres_table raises in DROP TABLE IF EXISTS, before it looks
\* at the columns: the exception leaves main through its finally
DropTableRaises ==
  /\ step1_pc = "loop"
  /\ table_no < Len(tables)
  /\ next_table.fault = "drop"
  /\ step1_pc' = "aborted"
  /\ UNCHANGED <<flyway, drivers, store, step4, tables, table_no, column_mapping, shorten_calls,
                 created, success_count, failed_tables, migrate_data, mapping_file, inserts>>

\* the rows a table holds, at most
MaxRows == 1

\* row_count = migrate_table_data(...): `return total_rows`, or `return 0`
\* from its except branch when a statement raised
migrate_table_data(raised, total_rows) == IF raised THEN 0 ELSE total_rows

\* the iteration of main's loop for a table that create_postgres_table
\* created: `if migrate_data:` the data is copied and the table counts as
\* migrated `if row_count >= 0`, else as failed; without data migration it
\* counts as migrated
TableCreated(raised, total_rows) ==
  /\ column_mapping' = create_postgres_table(next_table.t, column_mapping)
  /\ shorten_calls' = shorten_calls \o ShortenCalls(next_table.t)
  /\ created' = Append(created, CreateStatement(next_table.t))
  /\ inserts' = IF migrate_data
                THEN Append(inserts, [statement |-> InsertStatement(next_table.t),
                                      raised |-> raised,
                                      row_count |-> migrate_table_data(raised, total_rows)])
                ELSE inserts
  /\ IF migrate_data /\ ~(migrate_table_data(raised, total_rows) >= 0)
     THEN /\ failed_tables' = Append(failed_tables,
                                     table_key(next_table.t.schema, next_table.t.table))
          /\ UNCHANGED success_count
     ELSE /\ success_count' = success_count + 1
          /\ UNCHANGED failed_tables
  /\ table_no' = table_no + 1
  /\ UNCHANGED <<flyway, drivers, store, step4, tables, step1_pc, migrate_data, mapping_file>>

\* create_postgres_table returns True and no statement of the data copy raises
CreateTable ==
  /\ step1_pc = "loop"
  /\ table_no < Len(tables)
  /\ next_table.fault = "none" \/ (next_table.fault = "copy" /\ ~migrate_data)
  /\ \E total_rows \in 0..(IF migrate_data THEN MaxRows ELSE 0) :
       TableCreated(FALSE, total_rows)

\* create_postgres_table returns True and a statement inside the try of
\* migrate_table_data raises: the copy is rolled back and 0 is returned
CopyRaises ==
  /\ step1_pc = "loop"
  /\ table_no < Len(tables)
  /\ next_table.fault = "copy"
  /\ migrate_data
  /\ \E total_rows \in 0..MaxRows : TableCreated(TRUE, total_rows)

\* cursor.execute(create_statement) raises: create_postgres_table rolls
\* back and returns False with the mapping, the table is a failed table
CreateTableFails ==
  /\ step1_pc = "loop"
  /\ table_no < Len(tables)
  /\ next_table.fault = "create"
  /\ column_mapping' = create_postgres_table(next_table.t, column_mapping)
  /\ shorten_calls' = shorten_calls \o ShortenCalls(next_table.t)
  /\ failed_tables' = Append(failed_tables,
                             table_key(next_table.t.schema, next_table.t.table))
  /\ table_no' = table_no + 1
  /\ UNCHANGED <<flyway, drivers, store, step4, tables, created, success_count, step1_pc,
                 migrate_data, mapping_file, inserts>>

\* main after its loop: `if column_mapping: save_column_mapping(...)`,
\* has_errors = len(failed_tables) > 0, sys.exit(1) or sys.exit(0)
ExitStep1 ==
  /\ step1_pc = "loop"
  /\ table_no = Len(tables)
  /\ mapping_file' = IF column_mapping # <<>> THEN column_mapping ELSE mapping_file
  /\ step1_pc' = IF Len(failed_tables) > 0 THEN "exit1" ELSE "exit0"
  /\ UNCHANGED <<flyway, drivers, store, step4, tables, table_no, column_mapping, shorten_calls,
                 created, success_count, failed_tables, migrate_data, inserts>>

NextStep1 ==
  \/ DropTableRaises
  \/ CreateTable
  \/ CopyRaises
  \/ CreateTableFails
  \/ ExitStep1

SpecStep1 == InitStep1 /\ [][NextStep1]_vars

(***************************************************************************)
(* shorten_column_name on its own, with limits other than the default.     *)
(* The names are those of ColumnName with the lengths of NameLengths, the  *)
(* limits those of Limits; shorten_calls is the history of the calls.      *)
(***************************************************************************)
NameLengths == {2, 59, 60, 61, 70}

Limits == {1, 59, 60, 61, 63}

MaxShortenCalls == 2

InitShorten ==
  /\ FlywayNotStarted
  /\ DriversNotStarted
  /\ StoreNotStarted
  /\ Step4NotStarted
  /\ Step1NotStarted

\* shorten_column_name(column_name, max_length), recorded
Shortened(column_name, max_length) ==
  /\ Len(shorten_calls) < MaxShortenCalls
  /\ shorten_calls' = Append(shorten_calls,
                             [column_name |-> column_name, max_length |-> max_length,
                              result |-> shorten_column_name(column_name, max_length)])
  /\ UNCHANGED <<flyway, drivers, store, step4, tables, table_no, column_mapping, created,
                 success_count, failed_tables, step1_pc, migrate_data, mapping_file,
                 inserts>>

\* a call with a name and a limit
ShortenName ==
  \E n \in NameLengths, max_length \in Limits :
    Shortened(ColumnName(<<"n">>, n), max_length)

\* a call with the result of an earlier call and the limit of that call
ShortenAgain ==
  \E i \in DOMAIN shorten_calls :
    Shortened(shorten_calls[i].result, shorten_calls[i].max_length)

NextShorten ==
  \/ ShortenName
  \/ ShortenAgain

SpecShorten == InitShorten /\ [][NextShorten]_vars

(***************************************************************************)
(* run_all.py: main runs the four step modules through run_script.  How    *)
(* the main() of a step module ends is fixed for the run: it returns,      *)
(* calls sys.exit(0), sys.exit(1) or sys.exit(), raises an exception, or   *)
(* the module has no main ("no_main") or cannot be imported ("raises").    *)
(***************************************************************************)
StepOutcomes == {"returns", "exit0", "exit1", "exit", "raises", "no_main"}

\* the 'number' entries of steps
StepNumbers == <<1, 2, 3, 4>>

\* a break that never happens
required_never(number) == FALSE

\* the 'required' entry of the step in steps
required(number) == number \in {1, 2, 3}

\* run_script(...): True when main() returns or raises SystemExit with
\* code 0, False for every other code, for an exception and for a module
\* without main
run_script(outcome) == outcome \in {"returns", "exit0"}

InitRunAll ==
  /\ FlywayNotStarted
  /\ StoreNotStarted
  /\ Step4NotStarted
  /\ Step1NotStarted
  /\ ThreadsNotStarted
  /\ EndIfNotStarted
  /\ dotenv \in BOOLEAN
  /\ outcomes \in [DOMAIN StepNumbers -> StepOutcomes]
  /\ steps_started = <<>>
  /\ failed_steps = <<>>
  /\ runall_pc = "entry"

\* if not os.path.exists('.env'): sys.exit(1)
EnvMissing ==
  /\ runall_pc = "entry"
  /\ ~dotenv
  /\ runall_pc' = "exit1"
  /\ UNCHANGED <<flyway, step4, store, step1, concurrent, endif, dotenv, outcomes, steps_started,
                 failed_steps>>

\* load_dotenv, steps = [...], failed_steps = []
DefineSteps ==
  /\ runall_pc = "entry"
  /\ dotenv
  /\ runall_pc' = "loop"
  /\ UNCHANGED <<flyway, step4, store, step1, concurrent, endif, dotenv, outcomes, steps_started,
                 failed_steps>>

\* the step the loop of main handles next
next_step == StepNumbers[Len(steps_started) + 1]

\* an iteration of `for step in steps` in which run_script returns True
StepSucceeds ==
  /\ runall_pc = "loop"
  /\ Len(steps_started) < Len(StepNumbers)
  /\ run_script(outcomes[next_step])
  /\ steps_started' = Append(steps_started, next_step)
  /\ UNCHANGED <<flyway, step4, store, step1, concurrent, endif, dotenv, outcomes, failed_steps,
                 runall_pc>>

\* an iteration in which run_script returns False: the step is appended to
\* failed_steps, and `if step['required']: break`
StepFails ==
  /\ runall_pc = "loop"
  /\ Len(steps_started) < Len(StepNumbers)
  /\ ~run_script(outcomes[next_step])
  /\ steps_started' = Append(steps_started, next_step)
  /\ failed_steps' = Append(failed_steps, next_step)
  /\ runall_pc' = IF required(next_step) THEN "summary" ELSE "loop"
  /\ UNCHANGED <<flyway, step4, store, step1, concurrent, endif, dotenv, outcomes>>

\* the loop is over: the summary is printed
LoopEnds ==
  /\ runall_pc = "loop"
  /\ Len(steps_started) = Len(StepNumbers)
  /\ runall_pc' = "summary"
  /\ UNCHANGED <<flyway, step4, store, step1, concurrent, endif, dotenv, outcomes, steps_started,
                 failed_steps>>

\* if failed_steps: sys.exit(1); else main returns and the status is 0
ExitRunAll ==
  /\ runall_pc = "summary"
  /\ runall_pc' = IF failed_steps # <<>> THEN "exit1" ELSE "exit0"
  /\ UNCHANGED <<flyway, step4, store, step1, concurrent, endif, dotenv, outcomes, steps_started,
                 failed_steps>>

NextRunAll ==
  \/ EnvMissing
  \/ DefineSteps
  \/ StepSucceeds
  \/ StepFails
  \/ LoopEnds
  \/ ExitRunAll

SpecRunAll == InitRunAll /\ [][NextRunAll]_vars

(***************************************************************************)
(* Two callers of convert_file whose calls interleave, on one              *)
(* FlywayConverter instance or on two.  The instances are made with        *)
(* FlywayConverter(skip_collations=True) and the default type mappings.    *)
(* A caller takes one step per statement of convert_file: the reset of     *)
(* the log, each rule call, the return.  result is a local variable of     *)
(* the call; self.conversion_log is an attribute of the instance.          *)
(***************************************************************************)
Threads == {1, 2}

ThreadScripts == {go_batches, dbo_lower}

\* which instance each caller uses
ThreadInstances == {<<1, 1>>, <<1, 2>>}

\* the statement of convert_file at position p, applied to the text: the
\* text and the log entries of the rule, and the position after it
ConvertFileRule(p, text) ==
  CASE p = "go" -> [res |-> _convert_go_statements(text), next |-> "data_types"]
    [] p = "data_types" ->
         [res |-> _convert_data_types(text, load_type_mappings_with_fallback("absent")),
          next |-> "dbo"]
    [] p = "dbo" -> [res |-> _remove_dbo_prefix(text), next |-> "brackets"]
    [] p = "brackets" -> [res |-> _convert_bracket_identifiers(text), next |-> "branch"]
    [] p = "branch" ->
         IF Contains(text, <<"DO", " ", "$$">>)
         THEN [res |-> _convert_inside_do_blocks(text), next |-> "procedures"]
         ELSE [res |-> _wrap_if_exists_in_do_blocks(text), next |-> "identity"]
    [] p = "identity" -> [res |-> _convert_identity(text), next |-> "procedures"]
    [] p = "procedures" ->
         [res |-> _convert_procedures_to_functions(text), next |-> "transactions"]
    [] p = "transactions" ->
         [res |-> _convert_transactions(text), next |-> "extended_properties"]
    [] p = "extended_properties" ->
         [res |-> _convert_extended_properties(text), next |-> "parent_object_id"]
    [] p = "parent_object_id" ->
         [res |-> _remove_parent_object_id(text), next |-> "drop_index"]
    [] p = "drop_index" -> [res |-> _convert_drop_index(text), next |-> "drop_constraint"]
    [] p = "drop_constraint" ->
         [res |-> _convert_drop_constraint(text), next |-> "improve_drop"]
    [] p = "improve_drop" ->
         [res |-> _improve_drop_statements(text), next |-> "object_id_checks"]
    [] p = "object_id_checks" ->
         [res |-> _convert_object_id_checks(text), next |-> "timestamp_defaults"]
    [] p = "timestamp_defaults" ->
         [res |-> _convert_timestamp_defaults(text), next |-> "if_exists_statements"]
    [] p = "if_exists_statements" ->
         [res |-> _convert_if_exists_statements(text), next |-> "lowercase"]
    [] p = "lowercase" ->
         [res |-> _lowercase_keywords_and_identifiers(text), next |-> "format"]
    [] p = "format" -> [res |-> _format_sql_output(text), next |-> "cleanup"]
    [] p = "cleanup" ->
         [res |-> _cleanup_empty_lines_and_semicolons(text), next |-> "return"]

\* a log that is an attribute of the class: every instance uses the first
ClassLevelLog(t) == 1

\* self of the call of caller t: the instance whose conversion_log it uses
Self(t) == threads[t].instance

\* __init__ of each instance: self.conversion_log = []
InitThreads ==
  /\ FlywayNotStarted
  /\ StoreNotStarted
  /\ Step4NotStarted
  /\ Step1NotStarted
  /\ RunAllNotStarted
  /\ EndIfNotStarted
  /\ \E of \in ThreadInstances :
       /\ threads \in {th \in [Threads -> [instance : {of[1], of[2]}, pc : {"call"},
                                            sql_content : ThreadScripts, result : {<<>>},
                                            returned : {0}]] :
                          \A t \in Threads : th[t].instance = of[t]}
       /\ instances = [i \in {of[1], of[2]} |-> [conversion_log |-> i]]
       /\ lists = [i \in {of[1], of[2]} |-> <<>>]

\* self.conversion_log = []; result = sql_content
ThreadResets(t) ==
  /\ threads[t].pc = "call"
  /\ lists' = Append(lists, <<>>)
  /\ instances' = [instances EXCEPT ![Self(t)].conversion_log = Len(lists) + 1]
  /\ threads' = [threads EXCEPT ![t].pc = "go", ![t].result = threads[t].sql_content]
  /\ UNCHANGED <<flyway, step4, store, step1, runall, endif>>

\* result = self.<rule>(result): the entries of the rule go to the list
\* self.conversion_log is bound to now
ThreadStep(t) ==
  /\ threads[t].pc \notin {"call", "return", "done"}
  /\ threads' = [threads EXCEPT
                   ![t].pc = ConvertFileRule(threads[t].pc, threads[t].result).next,
                   ![t].result = ConvertFileRule(threads[t].pc, threads[t].result).res.text]
  /\ lists' = [lists EXCEPT ![instances[Self(t)].conversion_log] =
                  @ \o ConvertFileRule(threads[t].pc, threads[t].result).res.log]
  /\ UNCHANGED <<flyway, step4, store, step1, runall, endif, instances>>

\* return result, self.conversion_log
ThreadReturns(t) ==
  /\ threads[t].pc = "return"
  /\ threads' = [threads EXCEPT ![t].pc = "done",
                                ![t].returned = instances[Self(t)].conversion_log]
  /\ UNCHANGED <<flyway, step4, store, step1, runall, endif, instances, lists>>

NextThreads ==
  \E t \in Threads :
    \/ ThreadResets(t)
    \/ ThreadStep(t)
    \/ ThreadReturns(t)

SpecThreads == InitThreads /\ [][NextThreads]_vars

(***************************************************************************)
(* STEP 4 of convert_do_block_content as a loop: one step per line of the  *)
(* block content, which STEP 1 to STEP 3 have rewritten.  The lines are    *)
(* those of DoLines, in any order, MaxDoLines at most.                     *)
(***************************************************************************)
DoLines == {
  <<"BEGIN">>,
  <<"IF", " ", "a", " ", "THEN">>,
  <<"IF", " ", "a", " ", "THEN", " ", "IF", " ", "b", " ", "THEN">>,
  <<"select", " ", "1", ";">>,
  <<"END">>,
  <<"END", " ", "IF", ";">> }

MaxDoLines == 5

\* lines = content.split('\n'); new_lines = []; in_if_block = False;
\* if_depth = 0
InitEndIf ==
  /\ FlywayNotStarted
  /\ StoreNotStarted
  /\ Step4NotStarted
  /\ Step1NotStarted
  /\ RunAllNotStarted
  /\ ThreadsNotStarted
  /\ do_lines \in UNION {[1..n -> DoLines] : n \in 0..MaxDoLines}
  /\ do_line = 0
  /\ do_in_if_block = FALSE
  /\ do_if_depth = 0
  /\ do_new_lines = <<>>
  /\ do_rewritten = {}

\* the line of the running iteration
this_line == do_lines[do_line + 1]

\* if_depth after `if 'IF ' in stripped and 'THEN' in stripped: ... if_depth += 1`
depth_after_if == IF OpensIf(this_line) THEN do_if_depth + 1 ELSE do_if_depth

\* in_if_block after the same statement
in_if_after_if == OpensIf(this_line) \/ do_in_if_block

\* an iteration whose line is END or END; inside an IF: it is appended as
\* END IF;, if_depth -= 1, and in_if_block = False when if_depth == 0
RewriteEnd ==
  /\ do_line < Len(do_lines)
  /\ IsEndLine(this_line)
  /\ in_if_after_if /\ depth_after_if > 0
  /\ do_new_lines' = Append(do_new_lines, EndToEndIf(this_line))
  /\ do_if_depth' = depth_after_if - 1
  /\ do_in_if_block' = IF depth_after_if - 1 = 0 THEN FALSE ELSE in_if_after_if
  /\ do_rewritten' = do_rewritten \cup {do_line + 1}
  /\ do_line' = do_line + 1
  /\ UNCHANGED <<flyway, step4, store, step1, runall, concurrent, do_lines>>

\* every other iteration: the line is appended as it is
KeepLine ==
  /\ do_line < Len(do_lines)
  /\ ~(IsEndLine(this_line) /\ in_if_after_if /\ depth_after_if > 0)
  /\ do_new_lines' = Append(do_new_lines, this_line)
  /\ do_if_depth' = depth_after_if
  /\ do_in_if_block' = in_if_after_if
  /\ do_line' = do_line + 1
  /\ UNCHANGED <<flyway, step4, store, step1, runall, concurrent, do_lines, do_rewritten>>

NextEndIf ==
  \/ RewriteEnd
  \/ KeepLine

SpecEndIf == InitEndIf /\ [][NextEndIf]_vars

(***************************************************************************)
(* The properties.                                                          *)
(***************************************************************************)
\* the tokens of a text, as a set
Tokens(t) == {t[i] : i \in DOMAIN t}

\* the log entries the rule calls of a convert_file call appended, in order
Appended(r) == Flat([i \in DOMAIN r |-> r[i].log])

\* DECLARE ... IF ... BEGIN <body> END: the shape of spec 4.3 step 6a
IsGuardedScript(s) ==
  /\ Len(s) > 0
  /\ Lower(s[1]) = "declare"
  /\ Lower(s[Len(s)]) = "end"
  /\ {"if", "begin", "@"} \subseteq Tokens(LowerText(s))

DeclaredVariable(s) == s[IndexOf(s, 1, "@") + 1]

TestedVariable(s) == s[IndexOf(s, IndexOf(LowerText(s), 1, "if"), "@") + 1]

GuardBody(s) == SubSeq(s, IndexOf(LowerText(s), 1, "begin") + 1, Len(s) - 1)

\* the first words of the statements of a body
StatementVerbs(body) ==
  {Lower(body[i]) : i \in {j \in DOMAIN body :
     /\ IsWord(body[j])
     /\ \A k \in 1..(j - 1) : (\A m \in (k + 1)..(j - 1) : IsWs(body[m])) =>
                                (IsWs(body[k]) \/ body[k] = ";")}}

\* the names of the tables a body drops, in lower case
DroppedTables(body) ==
  {Lower(body[i + 4]) : i \in {j \in 1..(Len(body) - 4) :
     LowerText(SubSeq(body, j, j + 3)) = <<"drop", " ", "table", " ">>}}

\* the precondition of the elimination rule: the IF tests the declared
\* variable and its body holds only DROP/ALTER/CREATE statements
AlwaysTrueDdlGuard(s) ==
  /\ IsGuardedScript(s)
  /\ DeclaredVariable(s) = TestedVariable(s)
  /\ StatementVerbs(GuardBody(s)) \subseteq {"drop", "alter", "create"}

\* C1: a script DECLARE @v boolean = 1; IF @v = 1 BEGIN <DDL> END is
\* converted to its body as unconditional statements: every DROP TABLE of
\* the body comes out as `drop table if exists <name> cascade;`, and the
\* output holds no IF, BEGIN or DO $$ wrapper.
C1_AlwaysTrueGuardEliminated ==
  \A k \in DOMAIN calls :
    (~calls[k].again /\ AlwaysTrueDdlGuard(calls[k].sql_content)) =>
      LET out == LowerText(calls[k].result)
      IN /\ \A name \in DroppedTables(GuardBody(calls[k].sql_content)) :
              Contains(out, <<"drop", " ", "table", " ", "if", " ", "exists", " ",
                              name, " ", "cascade", ";">>)
         /\ Tokens(out) \cap {"begin", "$$", "declare"} = {}

\* IF EXISTS (<condition>) BEGIN <stmt> END: the shape of spec 4.3 step 6b
IsExistenceGuard(s) ==
  /\ Len(s) > 3
  /\ LowerText(SubSeq(s, 1, 3)) = <<"if", " ", "exists">>
  /\ Lower(s[Len(s)]) = "end"
  /\ "begin" \in Tokens(LowerText(s))

\* the text holds an anonymous block DO $$ ... $$, in any letter case
HasAnonymousBlock(t) ==
  FindAll(t, <<<<"do", "ws*", "$$">>, <<"$$">>>>, TRUE, TRUE) # <<>>

\* DO $$ BEGIN IF EXISTS (...) THEN ... END IF; END $$; up to letter case
\* and whitespace
HasGuardedBlock(t) ==
  FindAll(t, <<<<"do", "ws*", "$$", "ws*", "begin", "ws*", "if", "ws+", "exists", "ws*", "(">>,
               <<")", "ws*", "then">>, <<";", "ws*", "end", "ws+", "if", "ws*", ";", "ws*",
                                        "end", "ws*", "$$", "ws*", ";">>>>,
          TRUE, TRUE) # <<>>

\* C2: a script IF EXISTS (<condition>) BEGIN <stmt> END without an
\* anonymous block is converted to a text that holds the structure
\* DO $$ BEGIN IF EXISTS (<condition>) THEN <stmt>; END IF; END $$;
C2_ExistenceGuardPreserved ==
  \A k \in DOMAIN calls :
    (/\ ~calls[k].again
     /\ IsExistenceGuard(calls[k].sql_content)
     /\ ~HasAnonymousBlock(calls[k].sql_content)) =>
      HasGuardedBlock(calls[k].result)

\* C3: a DECLARE+IF script whose IF tests another variable than the
\* declared one, or whose body holds a statement that is no
\* DROP/ALTER/CREATE, keeps its IF in the output.
C3_EliminationOnlyUnderPrecondition ==
  \A k \in DOMAIN calls :
    (/\ ~calls[k].again
     /\ IsGuardedScript(calls[k].sql_content)
     /\ ~AlwaysTrueDdlGuard(calls[k].sql_content)) =>
      "if" \in Tokens(LowerText(calls[k].result))

\* the rule calls of a convert_file call that are a structural branch
Branches(r) == {i \in DOMAIN r : r[i].rule \in {"inside_do", "wrap"}}

\* how many IDENTITY(seed, increment) clauses a text holds
IdentityClauses(t) ==
  Len(FindAll(t, <<<<"identity", "ws*", "(", "ws*", "digits", "ws*", ",", "ws*", "digits",
                     "ws*", ")">>>>, TRUE, FALSE))

\* C4: every convert_file call runs exactly one structural branch, the
\* intra-block one if and only if the text after the first five rules holds
\* an anonymous block; IDENTITY is rewritten if and only if the top-level
\* branch ran, and a script with an anonymous block keeps every IDENTITY
\* clause.
C4_ModeSwitch ==
  \A k \in DOMAIN calls :
    LET r == calls[k].ran
    IN /\ Cardinality(Branches(r)) = 1
       /\ \A i \in Branches(r) :
            /\ (r[i].rule = "inside_do") <=> HasAnonymousBlock(r[i].before)
            /\ (r[i].rule = "wrap") <=> (\E j \in DOMAIN r : r[j].rule = "identity")
            /\ HasAnonymousBlock(r[i].before) =>
                 IdentityClauses(calls[k].result) = IdentityClauses(r[i].before)

\* the stage of spec 4.3 that each rule of convert_file belongs to
StageOf ==
     ("go" :> 1) @@ ("data_types" :> 2) @@ ("collations" :> 3) @@ ("dbo" :> 4)
  @@ ("brackets" :> 5) @@ ("inside_do" :> 6) @@ ("wrap" :> 6) @@ ("identity" :> 6)
  @@ ("procedures" :> 7) @@ ("transactions" :> 7) @@ ("extended_properties" :> 7)
  @@ ("parent_object_id" :> 7) @@ ("drop_index" :> 7) @@ ("drop_constraint" :> 7)
  @@ ("improve_drop" :> 7) @@ ("object_id_checks" :> 7)
  @@ ("if_exists_statements" :> 7) @@ ("timestamp_defaults" :> 8)
  @@ ("lowercase" :> 8) @@ ("format" :> 8) @@ ("cleanup" :> 9)

\* the rules that every convert_file call runs
UnconditionalRules ==
  DOMAIN StageOf \ {"collations", "inside_do", "wrap", "identity"}

\* C5 as stated: in every convert_file call the rules run in the order of
\* the stages 1 to 9, so no rule runs after a rule of a later stage.
C5_StageOrder ==
  \A i, j \in DOMAIN ran :
    i < j => StageOf[ran[i].rule] <= StageOf[ran[j].rule]

\* C5: in every convert_file call the rules run in the order of the stages
\* 1 to 9, but for the catalog-existence-check simplification, which runs
\* right after timestamp-default normalization and right before
\* case-folding.  No rule runs twice; collation rewriting runs if and only
\* if the instance does not skip collations and has a collation table; a
\* call that returned ran every other rule, and final cleanup last.
C5_PipelineOrder ==
  /\ \A i, j \in DOMAIN ran :
       i < j =>
         /\ ran[i].rule # ran[j].rule
         /\ \/ StageOf[ran[i].rule] <= StageOf[ran[j].rule]
            \/ ran[i].rule = "timestamp_defaults" /\ ran[j].rule = "if_exists_statements"
  /\ \A i \in DOMAIN ran :
       /\ ran[i].rule = "if_exists_statements" => ran[i - 1].rule = "timestamp_defaults"
       /\ ran[i].rule = "lowercase" => ran[i - 1].rule = "if_exists_statements"
       /\ ran[i].rule = "collations" => ~skip_collations /\ collations # <<>>
  /\ \A k \in DOMAIN calls :
       LET r == calls[k].ran
       IN /\ UnconditionalRules \subseteq {r[i].rule : i \in DOMAIN r}
          /\ r[Len(r)].rule = "cleanup"
          /\ (\E i \in DOMAIN r : r[i].rule = "collations")
               <=> (~skip_collations /\ collations # <<>>)

\* a call returned in which timestamp-default normalization and then the
\* catalog-existence-check simplification both changed the text
C5_Witness ==
  \E k \in DOMAIN calls :
    \E i, j \in DOMAIN calls[k].ran :
      LET r == calls[k].ran
      IN /\ i < j
         /\ r[i].rule = "timestamp_defaults" /\ r[i].before # r[i].after
         /\ r[j].rule = "if_exists_statements" /\ r[j].before # r[j].after
         /\ r[Len(r)].rule = "cleanup"

\* C6: the log a convert_file call returned holds exactly the entries
\* appended during that call, in order, whatever calls ran after it; so
\* does the details list of each file of the batch result, and no two
\* calls return the same list.
C6_FreshLogPerCall ==
  /\ \A k \in DOMAIN calls : heap[calls[k].log] = Appended(calls[k].ran)
  /\ \A f \in DOMAIN results.files :
       \E k \in DOMAIN calls :
         /\ calls[k].log = results.files[f].details
         /\ heap[results.files[f].details] = Appended(calls[k].ran)
         /\ results.files[f].changes = Len(Appended(calls[k].ran))
  /\ \A j, k \in DOMAIN calls : j # k => calls[j].log # calls[k].log

\* two calls returned logs with different entries, both are details of the
\* batch result, and a later call is running and has appended to its log
C6_Witness ==
  /\ Len(calls) >= 2
  /\ Len(results.files) >= 2
  /\ heap[calls[1].log] # heap[calls[2].log]
  /\ heap[calls[1].log] # <<>>
  /\ pc \notin {"idle", "return"}
  /\ heap[conversion_log] # <<>>
  /\ conversion_log \notin {calls[k].log : k \in DOMAIN calls}

\* C7: a rule call appends a log entry if and only if it changed the text.
C7_LogTracksChanges ==
  \A i \in DOMAIN ran : (ran[i].before # ran[i].after) <=> (ran[i].log # <<>>)

\* C8: when convert_file runs on the output of an earlier convert_file
\* call, the type, collation, schema-prefix and bracket rules neither
\* change the text nor append a log entry.
C8_SecondRunFindsNoMatch ==
  \A k \in DOMAIN calls :
    calls[k].again =>
      \A i \in DOMAIN calls[k].ran :
        LET r == calls[k].ran[i]
        IN r.rule \in {"data_types", "collations", "dbo", "brackets"} =>
             r.before = r.after /\ r.log = <<>>

\* the targets the table maps the word w to
TargetsOf(table, w) == {table[k][2] : k \in {j \in DOMAIN table : Lower(table[j][1]) = Lower(w)}}

\* the text with every word that is a key of the table replaced by the
\* target of that key
EachKeyReplaced(t, table) ==
  Flat([i \in DOMAIN t |->
          IF TargetsOf(table, t[i]) = {} THEN <<t[i]>>
          ELSE CHOOSE target \in TargetsOf(table, t[i]) : TRUE])

\* the text holds varchar(max), nvarchar(max) or varbinary(max)
HasUnboundedForm(t) ==
  \E word \in {"varchar", "nvarchar", "varbinary"} :
    FindAll(t, <<<<word, "ws*", "(", "ws*", "max", "ws*", ")">>>>, TRUE, FALSE) # <<>>

\* the text holds a type with the parameter (max)
HasMaxParameter(t) ==
  FindAll(t, <<<<"word", "ws*", "(", "ws*", "max", "ws*", ")">>>>, TRUE, FALSE) # <<>>

\* C9: type rewriting replaces every whole-word occurrence of a key of the
\* loaded table, in any letter case, by the target of that key and leaves
\* every other word as it is (in a text without a (max) parameter: the
\* unbounded forms are C10's).
C9_EachKeyToItsTarget ==
  \A i \in DOMAIN ran :
    (ran[i].rule = "data_types" /\ ~HasMaxParameter(ran[i].before)) =>
      ran[i].after = EachKeyReplaced(ran[i].before, TYPE_MAPPING)

\* C10: with the default table, the output for a script that declares
\* varchar(max), nvarchar(max) or varbinary(max) columns keeps no (max)
\* parameter.
C10_UnboundedFormsNormalized ==
  \A k \in DOMAIN calls :
    (/\ ~calls[k].again
     /\ TYPE_MAPPING = DEFAULT_TYPE_MAPPINGS
     /\ HasUnboundedForm(calls[k].sql_content)) =>
      FindAll(calls[k].result, <<<<"(", "ws*", "max", "ws*", ")">>>>, TRUE, FALSE) = <<>>

\* the elements of a sequence, as a set
Range(seq) == {seq[i] : i \in DOMAIN seq}

\* the inner texts of the bracket identifiers [inner] of a text
BracketIdentifiers(t) ==
  {SubSeq(t, span[1] + 1, span[2] - 2) :
     span \in Range(FindAll(t, <<<<"[", "notrbracket+", "]">>>>, FALSE, FALSE))}

\* C11: for every bracket identifier [inner] of a script, the output of
\* convert_file holds "inner" with the inner text token for token as it was
\* written, letter case and whitespace included.
C11_BracketInnerTextKept ==
  \A k \in DOMAIN calls :
    ~calls[k].again =>
      \A inner \in BracketIdentifiers(calls[k].sql_content) :
        Contains(calls[k].result, <<"\"">> \o inner \o <<"\"">>)

\* the text holds an identifier qualified by the schema prefix dbo, bare
\* (dbo.) or delimited ("dbo". or [dbo].), in any letter case
HasDboQualifier(t) ==
  \E i \in DOMAIN t :
    /\ Lower(t[i]) = "dbo"
    /\ \/ i + 1 <= Len(t) /\ t[i + 1] = "."
       \/ i + 2 <= Len(t) /\ t[i + 1] \in {"\"", "]"} /\ t[i + 2] = "."

\* C12: the output of convert_file holds no identifier qualified by the
\* schema prefix dbo, whether the script wrote the prefix bare or in bracket
\* delimiters and in whatever letter case.
C12_NoDboQualifierLeft ==
  \A k \in DOMAIN calls :
    (~calls[k].again /\ HasDboQualifier(calls[k].sql_content)) =>
      ~HasDboQualifier(calls[k].result)

\* the candidates of a source collation, in order: its list in
\* COLLATION_MAPPING; for a collation that is no key the built-in list
CandidatesOf(mssql_collation) ==
  IF mssql_collation \in DOMAIN COLLATION_MAPPING THEN COLLATION_MAPPING[mssql_collation]
  ELSE IF ContainsCI(mssql_collation) THEN CI_CANDIDATES
  ELSE <<"C">>

\* the first candidate that the destination has or that is the sentinel
\* default; default when there is none
FirstAvailable(candidates, available) ==
  LET usable == {k \in DOMAIN candidates :
                   candidates[k] = "default" \/ candidates[k] \in available}
  IN IF usable = {} THEN "default" ELSE candidates[Min(usable)]

\* the resolution of the i-th source column
Resolution(i) == FirstAvailable(CandidatesOf(columns[i]), available_collations)

\* C13: map_collation resolves every column to the first candidate of its
\* collation's list that the destination has or that is default, and to
\* default when the destination has none of them; a column resolved to
\* default gets no ALTER ... COLLATE statement and is counted as skipped,
\* every other column gets one statement with its resolution.
C13_FallbackChain ==
  /\ \A i \in 1..Len(columns) :
       map_collation(columns[i], available_collations) = Resolution(i)
  /\ \A i \in 1..column :
       IF Resolution(i) = "default"
       THEN \A k \in DOMAIN statements : statements[k].column # i
       ELSE \E k \in DOMAIN statements :
              /\ statements[k] = [column |-> i, collate |-> Resolution(i)]
              /\ \A j \in DOMAIN statements : statements[j].column = i => j = k
  /\ counts.skipped_count = Cardinality({i \in 1..column : Resolution(i) = "default"})
  /\ counts.success_count + counts.failed_count = Len(statements)

\* a column whose first two candidates the destination lacks was altered to
\* its third candidate, and a column with no candidate on the destination
\* was skipped
C13_Witness ==
  /\ column = 2
  /\ \E k \in DOMAIN statements :
       LET candidates == CandidatesOf(columns[statements[k].column])
       IN /\ Len(candidates) >= 3
          /\ statements[k].collate = candidates[3]
          /\ {candidates[1], candidates[2]} \cap available_collations = {}
  /\ \E i \in 1..column :
       /\ Range(CandidatesOf(columns[i])) \cap (available_collations \cup {"default"}) = {}
       /\ \A k \in DOMAIN statements : statements[k].column # i
  /\ counts.skipped_count = 1

\* the clauses COLLATE <name> of a text, in any letter case: their spans
CollateClauses(t) == FindAll(t, <<<<"collate", "ws+", "word">>>>, TRUE, FALSE)

\* the candidate lists the table gives for the collation name w
CandidateListsOf(table, w) ==
  {table[k][2] : k \in {j \in DOMAIN table : Lower(table[j][1]) = Lower(w)}}

\* the text with every clause COLLATE <key> replaced by COLLATE "<target>",
\* where target[k] is the target chosen for the k-th clause
CollateTargets(t, target) ==
  Splice(t, CollateClauses(t),
         [k \in DOMAIN CollateClauses(t) |-> <<"COLLATE", " ", "\"", target[k], "\"">>])

\* C14: with collation rewriting enabled, the collation rule replaces every
\* clause COLLATE <key> by COLLATE "<target>" with one collation name as
\* target, a candidate of that key; with the skip flag set no collation
\* rule runs and the output holds the COLLATE clauses of the script as they
\* were written.
C14_CollateOneTarget ==
  /\ \A i \in DOMAIN ran :
       (/\ ran[i].rule = "collations"
        /\ \A k \in DOMAIN CollateClauses(ran[i].before) :
             CandidateListsOf(collations, ran[i].before[CollateClauses(ran[i].before)[k][2] - 1])
               # {}) =>
         \E target \in [DOMAIN CollateClauses(ran[i].before) ->
                          UNION {Range(collations[j][2]) : j \in DOMAIN collations}] :
           /\ \A k \in DOMAIN target :
                \E list \in CandidateListsOf(
                               collations,
                               ran[i].before[CollateClauses(ran[i].before)[k][2] - 1]) :
                  target[k] \in Range(list)
           /\ ran[i].after = CollateTargets(ran[i].before, target)
  /\ \A k \in DOMAIN calls :
       (skip_collations /\ ~calls[k].again) =>
         /\ \A i \in DOMAIN calls[k].ran : calls[k].ran[i].rule # "collations"
         /\ [j \in DOMAIN CollateClauses(calls[k].sql_content) |->
               SubSeq(calls[k].sql_content, CollateClauses(calls[k].sql_content)[j][1],
                      CollateClauses(calls[k].sql_content)[j][2] - 1)]
            = [j \in DOMAIN CollateClauses(calls[k].result) |->
                 SubSeq(calls[k].result, CollateClauses(calls[k].result)[j][1],
                        CollateClauses(calls[k].result)[j][2] - 1)]

\* C15: when the source directory does not exist, the only step of
\* convert_flyway_scripts is the return of the error result: the target
\* directory is neither created nor emptied, no converter is made, no file
\* is read or converted, no result is counted and log_callback is not
\* called.
C15_MissingSourceNoWork ==
  [][~source_dir.exists =>
       /\ batch_pc = "entry" /\ batch_pc' = "error"
       /\ target_dir' = target_dir
       /\ log_callback = <<>> /\ log_callback' = <<>>
       /\ calls' = <<>> /\ ran' = <<>> /\ pc' = "idle" /\ sql_file' = 0
       /\ heap' = <<>> /\ TYPE_MAPPING' = <<>>
       /\ results' = [converted |-> 0, failed |-> 0, files |-> <<>>, total_changes |-> 0]]_vars

\* the error result was returned for a target directory that held files and
\* a subdirectory: they are still there
C15_Witness ==
  /\ ~source_dir.exists
  /\ batch_pc = "error"
  /\ \E item \in target_dir.items : item.kind = "file"
  /\ \E item \in target_dir.items : item.kind = "dir"

\* the names of the files the batch result reports as converted
ConvertedNames == {results.files[f].name : f \in DOMAIN results.files}

\* C16: once the source directory was found, the target directory holds
\* nothing of what it held before the call: its items are exactly the output
\* files of the scripts converted so far, one file per converted script and
\* nothing else; and when the call has returned and no file failed, the
\* converted count is the number of .sql files of the source directory.
C16_DestructiveClear ==
  batch_pc \in {"loop", "done"} =>
    /\ \A item \in target_dir.items : item.kind = "file" /\ item.name \in ConvertedNames
    /\ \A name \in ConvertedNames :
         Cardinality({item \in target_dir.items : item.name = name}) = 1
    /\ (batch_pc = "done" /\ results.failed = 0) =>
         results.converted = Cardinality(glob(source_dir.files))

\* the names of the .sql files of the source directory
SqlNamesOf(dir) ==
  {f.name : f \in {g \in dir.files :
                     /\ Len(g.name) >= 4
                     /\ SubSeq(g.name, Len(g.name) - 3, Len(g.name)) = <<".", "s", "q", "l">>}}

\* the names of the files log_callback was called for, in the order of the calls
Handled == [i \in DOMAIN log_callback |-> log_callback[i].name]

IsConverted(message) == message.status = "konvertiert"

RECURSIVE SumChanges(_)
\* the sum of the change counts of the entries of a files list
SumChanges(files) ==
  IF files = <<>> THEN 0 ELSE files[1].changes + SumChanges(Tail(files))

\* C17: the loop handles the .sql files of the source directory in
\* ascending order of their names, each once, and calls log_callback once
\* for each; a file whose reading, conversion or writing raises adds one to
\* failed and nothing else, and the loop goes on.  The files list holds the
\* converted files in the order they were handled, total_changes is the sum
\* of their change counts, and when the call has returned every .sql file
\* has been handled and converted + failed is their number.
C17_FailureIsolation ==
  batch_pc \in {"loop", "done"} =>
    /\ Range(Handled) \subseteq SqlNamesOf(source_dir)
    /\ \A i, j \in DOMAIN Handled : i < j => NameLess(Handled[i], Handled[j])
    /\ \A name \in SqlNamesOf(source_dir) :
         (\E i \in DOMAIN Handled : NameLess(name, Handled[i])) => name \in Range(Handled)
    /\ results.converted = Len(SelectSeq(log_callback, IsConverted))
    /\ results.converted + results.failed = Len(log_callback)
    /\ [f \in DOMAIN results.files |-> results.files[f].name]
         = [i \in DOMAIN SelectSeq(log_callback, IsConverted) |->
              SelectSeq(log_callback, IsConverted)[i].name]
    /\ \A f \in DOMAIN results.files :
         results.files[f].changes = SelectSeq(log_callback, IsConverted)[f].changes
    /\ results.total_changes = SumChanges(results.files)
    /\ batch_pc = "done" =>
         /\ Range(Handled) = SqlNamesOf(source_dir)
         /\ results.converted + results.failed = Cardinality(SqlNamesOf(source_dir))

\* the call returned for a directory whose first file could not be read,
\* whose second file was converted with changes and whose third file could
\* not be written
C17_Witness ==
  /\ batch_pc = "done"
  /\ [i \in DOMAIN log_callback |-> log_callback[i].status]
       = <<"FEHLER", "konvertiert", "FEHLER">>
  /\ results.converted = 1 /\ results.failed = 2
  /\ results.total_changes > 0
  /\ Cardinality(source_dir.files) > 3

\* C18: ensure_type_mappings_config writes the default table when the
\* resource does not exist or does not parse (and the write does not fail),
\* leaves a resource that parses as it is, and a further call leaves the
\* resource as the first one left it; a load that follows a call of it
\* returns a mapping that is not empty.
C18_SelfHealing ==
  \A i \in DOMAIN store_calls :
    /\ store_calls[i].op = "ensure" =>
         /\ (~Parses(store_calls[i].before) /\ store_fault = "none") =>
              store_calls[i].after = "default"
         /\ Parses(store_calls[i].before) => store_calls[i].after = store_calls[i].before
         /\ \A j \in DOMAIN store_calls :
              (j > i /\ store_calls[j].op = "ensure") =>
                store_calls[j].after = store_calls[i].after
    /\ (store_calls[i].op = "load" /\ \E j \in 1..(i - 1) : store_calls[j].op = "ensure") =>
         /\ store_calls[i].type = "dict"
         /\ store_calls[i].returned # <<>>

\* the first 40 characters of a name followed by its last 20 characters
First40Last20(name) ==
  [k \in 1..60 |-> IF k <= 40 THEN name[k] ELSE name[Len(name) - 60 + k]]

\* C19: with the limit 63, shorten_column_name returns a name of at most 63
\* characters unchanged and, for a name of 64 characters or more, its first
\* 40 characters followed by its last 20; two calls with the same name and
\* limit return the same.
C19_ShortenBoundary ==
  /\ \A i \in DOMAIN shorten_calls :
       shorten_calls[i].max_length = 63 =>
         /\ Len(shorten_calls[i].column_name) <= 63 =>
              shorten_calls[i].result = shorten_calls[i].column_name
         /\ Len(shorten_calls[i].column_name) >= 64 =>
              shorten_calls[i].result = First40Last20(shorten_calls[i].column_name)
  /\ \A i, j \in DOMAIN shorten_calls :
       (/\ shorten_calls[i].column_name = shorten_calls[j].column_name
        /\ shorten_calls[i].max_length = shorten_calls[j].max_length) =>
         shorten_calls[i].result = shorten_calls[j].result

\* a name of 63 characters was returned unchanged, a name of 64 characters
\* was shortened to 60, and one name was shortened in two calls
C19_Witness ==
  /\ \E i \in DOMAIN shorten_calls :
       /\ Len(shorten_calls[i].column_name) = 63
       /\ shorten_calls[i].result = shorten_calls[i].column_name
  /\ \E i, j \in DOMAIN shorten_calls :
       /\ i < j
       /\ shorten_calls[i].column_name = shorten_calls[j].column_name
       /\ Len(shorten_calls[i].column_name) = 64
       /\ Len(shorten_calls[i].result) = 60
       /\ shorten_calls[i].result # SubSeq(shorten_calls[i].column_name, 1, 60)

\* the tables create_postgres_table has looked at the columns of
HandledTables == {tables[i].t : i \in 1..table_no}

\* C20: column_mapping has one key schema.table for each table handled so
\* far, and under it the pairs original name -> shortened name for exactly
\* the columns of that table that are longer than 63 characters, whatever
\* tables were handled after it.
C20_ColumnMappingContent ==
  /\ DOMAIN column_mapping = {t.schema \o <<".">> \o t.table : t \in HandledTables}
  /\ \A t \in HandledTables :
       /\ DOMAIN column_mapping[t.schema \o <<".">> \o t.table]
            = {name \in Range(t.columns) : Len(name) > 63}
       /\ \A name \in DOMAIN column_mapping[t.schema \o <<".">> \o t.table] :
            column_mapping[t.schema \o <<".">> \o t.table][name] = First40Last20(name)

\* two tables with shortened columns were handled, the second after the
\* first failed to be created: the mapping holds the entries of both
C20_Witness ==
  /\ table_no = 2
  /\ tables[1].fault = "create"
  /\ Cardinality(DOMAIN column_mapping) = 2
  /\ \A key \in DOMAIN column_mapping : DOMAIN column_mapping[key] # {}
  /\ \E key \in DOMAIN column_mapping : Cardinality(DOMAIN column_mapping[key]) = 1

\* C21: every data copy of a run sees the mapping the table creation of the
\* same run recorded for its table, and inserts into the table and the
\* columns under the names the CREATE TABLE statement of that run gave them.
C21_NameAgreement ==
  \A i \in DOMAIN inserts :
    /\ inserts[i].statement.table_mapping
         = Get(column_mapping, inserts[i].statement.key, <<>>)
    /\ \E c \in DOMAIN created :
         /\ created[c].key = inserts[i].statement.key
         /\ created[c].pg_schema = inserts[i].statement.pg_schema
         /\ created[c].table = inserts[i].statement.table
         /\ created[c].columns = inserts[i].statement.columns

\* the data copies of the run that raised
RaisedCopies == {i \in DOMAIN inserts : inserts[i].raised}

\* C30: a table whose data copy raised is listed among the failed tables and
\* is not counted as migrated: success_count counts the created tables
\* whose data copy, if there was one, completed; and a run with such a table
\* ends with exit status 1.
C30_FailedCopyIsFailure ==
  /\ \A i \in RaisedCopies :
       \E f \in DOMAIN failed_tables : failed_tables[f] = inserts[i].statement.key
  /\ success_count = Len(created) - Cardinality(RaisedCopies)
  /\ (step1_pc \in {"exit0", "exit1"} /\ RaisedCopies # {}) => step1_pc = "exit1"

\* the first n characters of a name followed by its last m
PrefixSuffix(name, n, m) ==
  SubSeq(name, 1, n) \o SubSeq(name, Len(name) - m + 1, Len(name))

\* C28: for every name and every limit of at least 1, the result of
\* shorten_column_name is no longer than the limit, a name within the limit
\* is returned unchanged, shortening a result again with the same limit
\* returns it unchanged, and with a limit below 60 a longer name becomes its
\* first limit characters or a prefix and suffix that fit the limit.
C28_ShortenWithinLimit ==
  \A i \in DOMAIN shorten_calls :
    LET c == shorten_calls[i]
    IN /\ Len(c.result) <= c.max_length
       /\ Len(c.column_name) <= c.max_length => c.result = c.column_name
       /\ \A j \in DOMAIN shorten_calls :
            (shorten_calls[j].column_name = c.result
               /\ shorten_calls[j].max_length = c.max_length)
              => shorten_calls[j].result = c.result
       /\ (c.max_length < 60 /\ Len(c.column_name) > c.max_length)
            => \/ c.result = SubSeq(c.column_name, 1, c.max_length)
               \/ \E n, m \in 0..c.max_length :
                    /\ n + m <= c.max_length
                    /\ c.result = PrefixSuffix(c.column_name, n, m)

\* the steps run so far are the first steps of 1, 2, 3, 4, each once, and
\* every required step before a started step succeeded
StepsInOrder ==
  /\ Len(steps_started) <= Len(StepNumbers)
  /\ \A k \in DOMAIN steps_started : steps_started[k] = StepNumbers[k]
  /\ \A k \in DOMAIN steps_started :
       \A j \in 1..(k - 1) :
         steps_started[j] \in {1, 2, 3} => run_script(outcomes[steps_started[j]])
  /\ \A f \in DOMAIN failed_steps :
       /\ ~run_script(outcomes[failed_steps[f]])
       /\ \E k \in DOMAIN steps_started : steps_started[k] = failed_steps[f]

\* when the process has ended: a failed required step was the last step
\* started, and without a failed required step all four steps were run
RunStopsAtRequiredFailure ==
  runall_pc \in {"exit0", "exit1"} /\ dotenv =>
    /\ \A k \in DOMAIN steps_started :
         (steps_started[k] \in {1, 2, 3} /\ ~run_script(outcomes[steps_started[k]]))
           => k = Len(steps_started)
    /\ (\A k \in DOMAIN steps_started :
          steps_started[k] \in {1, 2, 3} => run_script(outcomes[steps_started[k]]))
         => steps_started = StepNumbers

\* C29 as stated: the steps run in the order 1, 2, 3, 4, each at most once,
\* a step starts only if every required step before it succeeded, a failed
\* required step ends the run, a failed step 4 stops nothing, and the
\* process ends with a non-zero status exactly when a step failed.
C29_StepOrchestration ==
  /\ StepsInOrder
  /\ RunStopsAtRequiredFailure
  /\ runall_pc \in {"exit0", "exit1"} =>
       (runall_pc = "exit1" <=> \E k \in DOMAIN steps_started :
                                  ~run_script(outcomes[steps_started[k]]))

\* C29, amended: as stated, except that the process also ends with status 1,
\* before any step, when the file .env is missing; when .env exists the
\* status is non-zero exactly when a step failed.
C29_StepOrchestrationWithEnv ==
  /\ StepsInOrder
  /\ RunStopsAtRequiredFailure
  /\ runall_pc \in {"exit0", "exit1"} =>
       IF dotenv
       THEN runall_pc = "exit1" <=> \E k \in DOMAIN steps_started :
                                      ~run_script(outcomes[steps_started[k]])
       ELSE runall_pc = "exit1" /\ steps_started = <<>>

\* steps 1, 2, 3 succeeded, the optional step 4 failed, and the process
\* ended with status 1
C29_Witness ==
  /\ runall_pc = "exit1"
  /\ steps_started = <<1, 2, 3, 4>>
  /\ failed_steps = <<4>>

RECURSIVE Alone(_, _, _)
\* what a convert_file call returns when no other call runs: the text and
\* the content of the log, from position p on
Alone(p, text, log) ==
  IF p = "return" THEN [text |-> text, log |-> log]
  ELSE CHOOSE returned \in {Alone(rule.next, rule.res.text, log \o rule.res.log) :
                              rule \in {ConvertFileRule(p, text)}} : TRUE

\* the callers that have returned
Done == {t \in Threads : threads # <<>> /\ threads[t].pc = "done"}

\* C24: two convert_file calls on two distinct instances never affect each
\* other: each returns the text and the log it returns when it runs alone,
\* and the returned log stays so while the other call runs.
C24_DistinctInstancesIsolated ==
  \A t \in Done :
    (\A u \in Threads \ {t} : threads[u].instance # threads[t].instance) =>
      /\ threads[t].result = Alone("go", threads[t].sql_content, <<>>).text
      /\ lists[threads[t].returned] = Alone("go", threads[t].sql_content, <<>>).log

\* two calls on the same instance have returned, and the log the first
\* caller got holds an entry of the other call and misses an entry of its own
C24_Witness ==
  /\ Done = Threads
  /\ threads[1].instance = threads[2].instance
  /\ threads[1].result = Alone("go", threads[1].sql_content, <<>>).text
  /\ LET own == Alone("go", threads[1].sql_content, <<>>).log
         other == Alone("go", threads[2].sql_content, <<>>).log
         got == lists[threads[1].returned]
     IN /\ \E k \in DOMAIN got : got[k] \notin Range(own) /\ got[k] \in Range(other)
        /\ \E k \in DOMAIN own : own[k] \notin Range(got)

\* a line of nothing but white space
IsBlankLine(line) == Strip(line) = <<>>

\* the normal form of the final cleanup
CleanedUp(text) ==
  /\ FindAll(text, <<<<";", "ws*", ";">>>>, FALSE, FALSE) = <<>>
  /\ \A i \in DOMAIN SplitLines(text) : Strip(SplitLines(text)[i]) # <<";">>
  /\ \A i \in DOMAIN SplitLines(text) :
       i > 1 => ~(IsBlankLine(SplitLines(text)[i - 1]) /\ IsBlankLine(SplitLines(text)[i]))
  /\ text # <<>> => /\ ~IsBlankLine(SplitLines(text)[1])
                    /\ ~IsBlankLine(SplitLines(text)[Len(SplitLines(text))])
  /\ _cleanup_empty_lines_and_semicolons(text).text = text

\* C22: the text every convert_file call returns holds no two semicolons
\* with only white space between them, no line of just a semicolon, no two
\* blank lines in a row and no blank line at its start or end, and the
\* final cleanup leaves it unchanged.
C22_CleanupNormalForm ==
  \A k \in DOMAIN calls : CleanedUp(calls[k].result)

\* the returned calls that converted the script
QuartzCalls == {k \in DOMAIN calls : calls[k].sql_content = big_script}

\* C23: the converted quartz script holds a DO $$ block with IF dropdb THEN,
\* the drops grouped under the headers -- Drop indexes, -- Drop constraints
\* and -- Drop tables, and the names of the created tables in lower case.
C23_QuartzScript ==
  \A k \in QuartzCalls :
    /\ Contains(calls[k].result, <<"DO", " ", "$$">>)
    /\ Contains(LowerText(calls[k].result), <<"if", " ", "dropdb", " ", "then">>)
    /\ Contains(LowerText(calls[k].result), <<"--", " ", "drop", " ", "indexes">>)
    /\ Contains(LowerText(calls[k].result), <<"--", " ", "drop", " ", "constraints">>)
    /\ Contains(LowerText(calls[k].result), <<"--", " ", "drop", " ", "tables">>)
    /\ Contains(calls[k].result, <<"create", " ", "table", " ", "t", " ", "(">>)

\* how many IF ... THEN a line holds
IfCount(line) == Cardinality({k \in DOMAIN line : Lower(line[k]) = "then"})

\* how many IF ... THEN the lines 1..n hold
RECURSIVE IfsUpTo(_)
IfsUpTo(n) == IF n = 0 THEN 0 ELSE IfsUpTo(n - 1) + IfCount(do_lines[n])

\* the lines among 1..n that are END or END;
EndsUpTo(n) == {k \in 1..n : IsEndLine(do_lines[k])}

\* the lines among 1..n that hold IF ... THEN
OpeningLinesUpTo(n) == {k \in 1..n : IfCount(do_lines[k]) > 0}

\* nested IF blocks inside BEGIN ... END: the first line is the only BEGIN,
\* no line is END IF; yet, every IF has its END and the last END closes the
\* BEGIN
NestedIfBlocks ==
  /\ Len(do_lines) >= 2
  /\ \A k \in DOMAIN do_lines : (do_lines[k] = <<"BEGIN">>) <=> (k = 1)
  /\ \A k \in DOMAIN do_lines : do_lines[k] # <<"END", " ", "IF", ";">>
  /\ IsEndLine(do_lines[Len(do_lines)])
  /\ Cardinality(EndsUpTo(Len(do_lines))) = IfsUpTo(Len(do_lines)) + 1
  /\ \A n \in 1..(Len(do_lines) - 1) : Cardinality(EndsUpTo(n)) <= IfsUpTo(n)

\* the loop's variables after every iteration: if_depth is the number of
\* lines with IF ... THEN so far minus the number of lines rewritten so far,
\* never negative, in_if_block is true exactly with a depth above 0, and a
\* line is rewritten to END IF; exactly when it is END or END; at a depth
\* above 0
DepthTracking ==
  /\ do_if_depth >= 0
  /\ do_in_if_block <=> do_if_depth > 0
  /\ do_if_depth = Cardinality(OpeningLinesUpTo(do_line)) - Cardinality(do_rewritten)
  /\ \A k \in 1..do_line :
       /\ k \in do_rewritten <=>
            /\ IsEndLine(do_lines[k])
            /\ Cardinality(OpeningLinesUpTo(k))
                  - Cardinality(do_rewritten \cap 1..(k - 1)) > 0
       /\ do_new_lines[k] = IF k \in do_rewritten THEN <<"END", " ", "IF", ";">>
                             ELSE do_lines[k]

\* C25: if_depth starts at 0, is incremented by every line with IF ... THEN
\* and decremented with every END or END; line rewritten to END IF;, which
\* happens exactly at a depth above 0; the depth is never negative and
\* in_if_block is true exactly when it is above 0; and so, for nested IF
\* blocks inside BEGIN ... END, every IF's END becomes END IF; while the
\* closing END of the enclosing block stays END.
C25_EndIfDepth ==
  /\ DepthTracking
  /\ (do_line = Len(do_lines) /\ NestedIfBlocks) =>
       do_rewritten = EndsUpTo(Len(do_lines)) \ {Len(do_lines)}

\* the lines among 1..n that are END IF;
EndIfsUpTo(n) == {k \in 1..n : do_lines[k] = <<"END", " ", "IF", ";">>}

\* a block that is converted already: BEGIN, IF ... THEN blocks that END IF;
\* closes, and the END of the block as the only END line
AlreadyConverted ==
  /\ Len(do_lines) >= 2
  /\ \A k \in DOMAIN do_lines : (do_lines[k] = <<"BEGIN">>) <=> (k = 1)
  /\ EndsUpTo(Len(do_lines)) = {Len(do_lines)}
  /\ IfsUpTo(Len(do_lines)) > 0
  /\ Cardinality(EndIfsUpTo(Len(do_lines))) = IfsUpTo(Len(do_lines))
  /\ \A n \in 1..Len(do_lines) : Cardinality(EndIfsUpTo(n)) <= IfsUpTo(n)

\* C27: a block that is converted already keeps its structure: its END IF;
\* lines close their IFs, so the closing END of the block is not rewritten,
\* no line changes, and the output holds as many END IF; as IF ... THEN.
C27_ConvertedBlockStable ==
  (do_line = Len(do_lines) /\ AlreadyConverted) =>
    /\ do_rewritten = {}
    /\ do_new_lines = do_lines
    /\ do_if_depth = 0

\* the calls of _format_sql_output so far: what they got and returned
FormatCalls ==
  UNION {{[before |-> calls[k].ran[r].before, after |-> calls[k].ran[r].after] :
            r \in {n \in DOMAIN calls[k].ran : calls[k].ran[n].rule = "format"}} :
         k \in DOMAIN calls}

\* a line that ends a block: $$; or END $$;
EndsBlock(line) ==
  Strip(line) \in {<<"$$", ";">>, <<"END", " ", "$$", ";">>}

\* the texts with a single block: one line with DO $$, and after it one
\* line that ends the block
BlockEnd(lines) ==
  {e \in DOMAIN lines :
     /\ EndsBlock(lines[e])
     /\ Cardinality({d \in DOMAIN lines : Contains(lines[d], <<"DO", " ", "$$">>)}) = 1
     /\ \E d \in 1..(e - 1) : Contains(lines[d], <<"DO", " ", "$$">>)
     /\ \A k \in DOMAIN lines : EndsBlock(lines[k]) => k = e}

\* C26: the formatter works only on the lines between a DO $$ line and the
\* end of that block: the lines after the line that ends the block, $$; or
\* END $$;, are emitted as they are, and no line is dropped.
C26_FormatterScope ==
  \A c \in FormatCalls :
    \A e \in BlockEnd(SplitLines(c.before)) :
      LET lines == SplitLines(c.before)
          out == SplitLines(c.after)
      IN /\ Len(out) >= Len(lines)
         /\ SubSeq(out, Len(out) - (Len(lines) - e) + 1, Len(out))
              = SubSeq(lines, e + 1, Len(lines))

====
